---- MODULE Spec2Model ----
(***************************************************************************)
(* linkin-lark: the job pipeline of the audiobook converter.               *)
(*                                                                         *)
(*   - RateLimiter.execute (services/rate-limiter.ts): a manual throttle   *)
(*     on lastRequestTime, a PQueue {concurrency, interval, intervalCap:1} *)
(*     and the retry loop with calculateBackoff.                           *)
(*   - convertCommand (commands/convert.ts): flags, RunState load / save / *)
(*     clear, the chapter queue and the per-chapter task.  Line numbers of *)
(*     convert.ts are those of its latest revision, unnamed/part_006.      *)
(*                                                                         *)
(*   - calculateBackoff (services/rate-limiter.ts) and splitTextIntoChunks *)
(*     (tts.ts), each also run on its own over bounded inputs.             *)
(*                                                                         *)
(* PQueue is the p-queue package.  Its bookkeeping is modelled as the      *)
(* package documents it: `concurrency` bounds the jobs running at once,    *)
(* `intervalCap` bounds the jobs started in one interval, and `interval`   *)
(* is the time after which the count of starts is reset (fixed windows,    *)
(* anchored at the start that armed the timer).                            *)
(***************************************************************************)
EXTENDS Integers, Sequences, FiniteSets, TLC

(***************************************************************************)
(* Bounds of the model.                                                    *)
(***************************************************************************)
NCallers == 3          \* concurrent callers of RateLimiter.execute
MaxTicks == 6          \* clock ticks explored while several callers compete
MaxTicksOne == 12      \* clock ticks explored for one caller and its retries
NChapters == 3         \* chapters of the parsed input
MaxRuns == 2           \* invocations of the convert command, one after another
MaxFaults == 2         \* failures of the environment (API, disk, kill) over all runs
MaxAttempt == 6        \* attempt numbers handed to calculateBackoff on its own
MaxLen == 5            \* length of the texts enumerated in full for splitTextIntoChunks
MaxCeiling == 3        \* ceilings (maxChars) handed to splitTextIntoChunks
MaxSlack == 3          \* how far the long texts' break lies from the end of the lookahead
MaxDeficit == 1        \* how far below zero the ceilings handed to splitTextIntoChunks go
MaxBelow == 3          \* how far below 0 the start offset of the split loop is followed
MaxChunks == 12        \* chunks pushed before a split loop is no longer followed
FileTotal == 2         \* totalChapters of the state files handed to load
MaxTotal == 12         \* every totalChapters up to this is handed to generateFileName
MaxParts == 3          \* chunks of the chapter handed to convertToSpeech

(***************************************************************************)
(* The RateLimiter under test: new RateLimiter({concurrency: RLConcurrency})*)
(* with the defaults of rate-limiter.ts 17-18 for the rest.  The convert   *)
(* command runs with CONCURRENT_REQUESTS and REQUESTS_PER_SECOND set in    *)
(* the environment (convert.ts 51-52).                                     *)
(***************************************************************************)
RLConcurrency == 2         \* the concurrency option explored
CONCURRENT_REQUESTS == 2   \* the environment setting explored
REQUESTS_PER_SECOND == 2   \* the environment setting explored

IntervalMs == 1200         \* rate-limiter.ts:17
MaxRetries == 3            \* rate-limiter.ts:18
IntervalCap == 1           \* rate-limiter.ts:23
BackoffBaseMs == 2000      \* rate-limiter.ts:60
BackoffCeilingMs == 30000  \* rate-limiter.ts:60
QueueIntervalMs == 1000    \* convert.ts:219
Lookahead == 500           \* tts.ts:126
ParagraphTolerance == 500  \* tts.ts:140
SentenceTolerance == 200   \* tts.ts:142

TickMs == IntervalMs \div 2
StartNow == IntervalMs * 2

Callers == 1..NCallers

Min(a, b) == IF a < b THEN a ELSE b

RECURSIVE Pow2(_)
Pow2(n) == IF n = 0 THEN 1 ELSE 2 * Pow2(n - 1)

(***************************************************************************)
(* tts.ts convertSingleChunk: the HTTP responses of the synthesis endpoint *)
(* and the Error each non-2xx response is turned into.  A message is kept  *)
(* as what the RateLimiter reads from it: whether it contains              *)
(* 'Rate limit exceeded', whether it contains 'server error', and the      *)
(* digits /Retry after (\d+)/ captures (-1: no match).                     *)
(*   status      the HTTP status, 0 for a fetch that threw (no response)   *)
(*   retryAfter  the Retry-After header in seconds, -1 when absent         *)
(*   textRate    statusText or body contains 'Rate limit exceeded'         *)
(*   textServer  statusText or body contains 'server error'                *)
(***************************************************************************)
Resp(status, retryAfter, textRate, textServer) ==
    [status |-> status, retryAfter |-> retryAfter,
     textRate |-> textRate, textServer |-> textServer]

RespOk == Resp(200, -1, FALSE, FALSE)

Responses ==
    { RespOk,
      Resp(401, -1, FALSE, FALSE),
      Resp(429, -1, FALSE, FALSE),
      Resp(429, 0, FALSE, FALSE),
      Resp(429, 2, FALSE, FALSE),
      Resp(500, -1, FALSE, FALSE),
      Resp(400, -1, FALSE, FALSE),
      Resp(400, -1, FALSE, TRUE),
      Resp(0, -1, FALSE, FALSE) }

\* The endpoint as the competing callers see it: it answers, throttles with
\* Retry-After: 0, or rejects the request.
FewResponses ==
    { RespOk, Resp(429, 0, FALSE, FALSE), Resp(400, -1, FALSE, FALSE) }

\* The workloads explored: several callers against an endpoint with few
\* behaviours, or one caller against every behaviour.
Workloads ==
    { [callers |-> NCallers, responses |-> FewResponses, ticks |-> MaxTicks],
      [callers |-> 1, responses |-> Responses, ticks |-> MaxTicksOne] }

NoError == [kind |-> "none", rate |-> FALSE, server |-> FALSE, retryAfter |-> -1]

\* tts.ts 193-210 (and the rejection of fetch itself, 174-191)
ErrorOf(r) ==
    IF r.status = 0
    THEN [kind |-> "network", rate |-> FALSE, server |-> FALSE, retryAfter |-> -1]
    ELSE IF r.status = 401
    THEN [kind |-> "401", rate |-> FALSE, server |-> FALSE, retryAfter |-> -1]
    ELSE IF r.status = 429
    THEN [kind |-> "429", rate |-> TRUE, server |-> FALSE, retryAfter |-> r.retryAfter]
    ELSE IF r.status >= 500
    THEN [kind |-> "5xx", rate |-> r.textRate, server |-> TRUE, retryAfter |-> -1]
    ELSE [kind |-> "4xx", rate |-> r.textRate, server |-> r.textServer, retryAfter |-> -1]

IsOk(r) == r.status >= 200 /\ r.status < 300

(***************************************************************************)
(* rate-limiter.ts 53-61                                                   *)
(***************************************************************************)
\* the exponential schedule without its ceiling (sensitivity variant)
calculateBackoffNoCeiling(attempt, hasError, error) ==
    IF hasError /\ error.retryAfter >= 0
    THEN error.retryAfter * 1000
    ELSE BackoffBaseMs * Pow2(attempt)

calculateBackoff(attempt, hasError, error) ==
    IF hasError /\ error.retryAfter >= 0
    THEN error.retryAfter * 1000
    ELSE Min(BackoffBaseMs * Pow2(attempt), BackoffCeilingMs)

\* rate-limiter.ts 38-42
is429(error) == error.rate
is5xx(error) == error.server
\* a retry decision without the budget (sensitivity variant)
ShouldRetryUnbounded(retryCount, error) ==
    is429(error) \/ is5xx(error)

ShouldRetry(retryCount, error) ==
    retryCount < MaxRetries /\ (is429(error) \/ is5xx(error))

(***************************************************************************)
(* PQueue.  A queue is a record                                            *)
(*   items        the jobs waiting, oldest first                           *)
(*   pending      jobs started and not settled                             *)
(*   count        jobs started in the current interval                     *)
(*   intervalId   the interval timer is armed                              *)
(*   nextTick     when it fires next                                       *)
(* An operation returns the new queue and the jobs it started.             *)
(***************************************************************************)
EmptyQueue ==
    [items |-> <<>>, pending |-> 0, count |-> 0, intervalId |-> FALSE,
     nextTick |-> 0]

\* a gate that only counts the starts of the interval (sensitivity variant)
PQAllowsIntervalOnly(pending, count, concurrency, cap) ==
    count < cap

\* a job may start: the interval allows another and the concurrency does
PQAllows(pending, count, concurrency, cap) ==
    count < cap /\ pending < concurrency

\* start the oldest waiting job if one may start; the first start arms the timer
TryToStartAnother(q, t, concurrency, cap, interval) ==
    IF q.items # <<>> /\ PQAllows(q.pending, q.count, concurrency, cap)
    THEN [q |-> [q EXCEPT !.items = Tail(@),
                          !.pending = @ + 1,
                          !.count = @ + 1,
                          !.intervalId = TRUE,
                          !.nextTick = IF q.intervalId THEN @ ELSE t + interval],
          started |-> <<Head(q.items)>>]
    ELSE [q |-> q, started |-> <<>>]

RECURSIVE ProcessQueue(_, _, _, _, _)
ProcessQueue(q, t, concurrency, cap, interval) ==
    LET r == TryToStartAnother(q, t, concurrency, cap, interval)
    IN  IF r.started = <<>> THEN r
        ELSE LET rest == ProcessQueue(r.q, t, concurrency, cap, interval)
             IN  [q |-> rest.q, started |-> r.started \o rest.started]

\* queue.add(job)
QueueAdd(q, job, t, concurrency, cap, interval) ==
    TryToStartAnother([q EXCEPT !.items = Append(@, job)],
                      t, concurrency, cap, interval)

\* a queue that discards the oldest waiting job when a running one settles
\* (sensitivity variant)
QueueNextDropsWaiting(q, t, concurrency, cap, interval) ==
    [q |-> [q EXCEPT !.pending = @ - 1,
                     !.items = IF @ = <<>> THEN @ ELSE Tail(@)],
     started |-> <<>>]

\* a queue whose settled job keeps its slot (sensitivity variant)
QueueNextKeepsSlot(q, t, concurrency, cap, interval) ==
    TryToStartAnother(q, t, concurrency, cap, interval)

\* a running job settled
QueueNext(q, t, concurrency, cap, interval) ==
    TryToStartAnother([q EXCEPT !.pending = @ - 1], t, concurrency, cap, interval)

\* the interval timer fires: the count of starts is reset
QueueOnInterval(q, t, concurrency, cap, interval) ==
    ProcessQueue([q EXCEPT !.count = 0, !.nextTick = @ + interval],
                 t, concurrency, cap, interval)

(***************************************************************************)
(* State of a program using one RateLimiter.                               *)
(***************************************************************************)
VARIABLES
    workload,         \* who calls execute() and what the endpoint answers
    now,              \* Date.now()
    lastRequestTime,  \* RateLimiter.lastRequestTime
    rlq,              \* RateLimiter.queue
    cpc,              \* per caller: where its execute() is
    retryCount,       \* per caller: the retryCount argument of its execute()
    wake,             \* per caller: when its wait() resolves
    calls,            \* per caller: how often fn was invoked
    oks,              \* per caller: how many of those calls succeeded
    lastErr,          \* per caller: the error of its latest failed call
    thrown,           \* per caller: the error execute() threw
    delayMs,          \* per caller: the latest calculateBackoff result
    lastStartAt,      \* when the latest protected call started (-1: none)
    prevStartAt       \* when the one before it started (-1: none)

limVars == <<workload, now, lastRequestTime, rlq, cpc, retryCount, wake, calls, oks,
             lastErr, thrown, delayMs, lastStartAt, prevStartAt>>

(***************************************************************************)
(* State of the convert command and of the output directory.               *)
(***************************************************************************)
VARIABLES
    rpc,         \* the convert process: "off", "initsave", "tasks", "exited",
                 \* "aborted" (process.exit(1)) or "killed"
    exitAt,      \* where the last run returned or threw
    runs,        \* invocations so far
    opts,        \* options and parse result of the current invocation
    disk,        \* the state file in the output directory
    audio,       \* chapters whose audio file is wholly written
    state,       \* the in-memory RunState
    loaded,      \* the state this run started from, once load and the mismatch check ran
    task,        \* per chapter: where its queue task is
    chunk,       \* per chapter: the chunk being synthesized
    rq,          \* the chapter queue
    wr,          \* per writer: its state-file write in flight
    attempts,    \* per chapter: convertToSpeech invocations in this run
    synthCalls,  \* per chapter: synthesis HTTP calls started in this run
    permits,     \* per chapter: queue admissions in this run
    convFailed,  \* chapters whose synthesis or audio write failed in this run
    saveFailed,  \* chapters whose RunState save threw in this run
    faults       \* failures of the environment so far

runVars == <<rpc, exitAt, runs, opts, disk, audio, state, loaded, task, chunk,
             rq, wr, attempts, synthCalls, permits, convFailed, saveFailed, faults>>

(***************************************************************************)
(* State of the pure functions checked on their own: the inputs drawn and  *)
(* what the function returned.                                             *)
(***************************************************************************)
VARIABLES
    fpc,         \* the function under check and where it is: "off", "backoff",
                 \* "split", "splitDone", "load", "loadDone", "name", "nameDone",
                 \* "save", "saving", "saved", "crashed"
    bError,      \* calculateBackoff: the error execute() caught
    bAttempt,    \* calculateBackoff: the attempt number of the next call
    bDelay,      \* calculateBackoff: the latest result (-1: none)
    bPrevDelay,  \* calculateBackoff: the result for the attempt before (-1: none)
    sText,       \* splitTextIntoChunks: text
    sMaxChars,   \* splitTextIntoChunks: maxChars
    sStart,      \* splitTextIntoChunks: start
    sChunks,     \* splitTextIntoChunks: chunks
    fArg,        \* load, generateFileName: the argument
    fRet         \* load, generateFileName: what the call returned

pureVars == <<fpc, bError, bAttempt, bDelay, bPrevDelay, sText, sMaxChars, sStart, sChunks,
              fArg, fRet>>

vars == <<limVars, runVars, pureVars>>

ChapterIds == 0..(NChapters - 1)
InitWriter == NChapters
Writers == 0..NChapters

Sources == {"bookA", "bookB"}

\* what parseInput can return for an invocation: the source and its chapters
Inputs ==
    { [source |-> "bookA", total |-> NChapters],
      [source |-> "bookB", total |-> NChapters],
      [source |-> "bookA", total |-> NChapters - 1] }

\* cli.ts 19-21 and the flags convertCommand reads; apiKey: ELEVENLABS_API_KEY is set
AllOptions ==
    [input : Inputs, dryRun : BOOLEAN, force : BOOLEAN, resume : BOOLEAN,
     yes : BOOLEAN, json : BOOLEAN, apiKey : BOOLEAN]

\* One representative of the invocations that behave alike: a dry run and a
\* run without API key return before any other flag is read, --force with
\* --resume is --force, --format json with --yes is --format json.
Options ==
    {o \in AllOptions :
        /\ ~(o.force /\ o.resume)
        /\ ~(o.yes /\ o.json)
        /\ (o.dryRun \/ ~o.apiKey) =>
              ~o.force /\ ~o.resume /\ ~o.yes /\ ~o.json /\ o.input.total = NChapters}

\* The first invocation finds an empty output directory: no state file for
\* --force or --resume to act on, no source to differ from.
FirstOptions ==
    {o \in Options : ~o.force /\ ~o.resume /\ o.input = [source |-> "bookA", total |-> NChapters]}

NoOptions ==
    [input |-> [source |-> "bookA", total |-> NChapters], dryRun |-> FALSE,
     force |-> FALSE, resume |-> FALSE, yes |-> FALSE, json |-> FALSE,
     apiKey |-> FALSE]

\* The chapters of the specification's scenario: the second one exceeds
\* MAX_CHARS and is split into two chunks (tts.ts 79-84).
NChunks(i) == IF i = 1 THEN 2 ELSE 1

(***************************************************************************)
(* state-manager.ts: ConversionState, and what the state file can hold.    *)
(* kind "state": a valid ConversionState; "absent": no file (null in       *)
(* memory); "corrupt": a file that load rejects.                           *)
(***************************************************************************)
RunState(source, total, completed, failed) ==
    [kind |-> "state", source |-> source, total |-> total,
     completed |-> completed, failed |-> failed]

NullState == [kind |-> "absent", source |-> "", total |-> 0,
              completed |-> <<>>, failed |-> <<>>]

CorruptFile == [kind |-> "corrupt", source |-> "", total |-> 0,
                completed |-> <<>>, failed |-> <<>>]

NoWrite == [busy |-> FALSE, snap |-> NullState, overlapped |-> FALSE]

\* a load that never finds a state (sensitivity variant)
LoadNothing(file) == NullState

\* state-manager.ts 24-45
Load(file) == IF file.kind = "state" THEN file ELSE NullState

\* a run that skips nothing (sensitivity variant)
neverSkipChapter(i, st) == FALSE

\* a run that also skips the chapters recorded as failed (sensitivity variant)
skipFailedChapterToo(i, st) ==
    st.kind = "state" /\
        \/ \E k \in 1..Len(st.completed) : st.completed[k] = i
        \/ \E k \in 1..Len(st.failed) : st.failed[k].index = i

\* state-manager.ts 47-49
shouldSkipChapter(i, st) ==
    st.kind = "state" /\ \E k \in 1..Len(st.completed) : st.completed[k] = i

FailedIndices(st) == {st.failed[k].index : k \in 1..Len(st.failed)}
CompletedSet(st) == {st.completed[k] : k \in 1..Len(st.completed)}

\* convert.ts 134
Mismatch(st, input) == st.source # input.source \/ st.total # input.total

\* convert.ts 157-163
FreshState(input) == RunState(input.source, input.total, <<>>, <<>>)

\* convert.ts 261-264
MarkCompleted(st, i) ==
    LET keep(f) == f.index # i
    IN  [st EXCEPT !.completed = Append(@, i),
                   !.failed = SelectSeq(@, keep)]

\* a catch block that does not record the failure (sensitivity variant)
MarkFailedForgotten(st, i, reason) == st

\* a catch block that books the chapter as completed (sensitivity variant)
MarkFailedAsCompleted(st, i, reason) ==
    [st EXCEPT !.completed = Append(@, i)]

\* convert.ts 281-285
MarkFailed(st, i, reason) ==
    [st EXCEPT !.failed = Append(@, [index |-> i, error |-> reason])]

\* state-manager.ts 19-22: Bun.write starts; the file changes when it lands
BeginWrite(w, writer, snapshot) ==
    [x \in Writers |->
        IF x = writer
        THEN [busy |-> TRUE, snap |-> snapshot,
              overlapped |-> \E y \in Writers : y # writer /\ w[y].busy]
        ELSE IF w[x].busy THEN [w[x] EXCEPT !.overlapped = TRUE] ELSE w[x]]

EndWrite(w, writer) == [w EXCEPT ![writer] = NoWrite]

\* what the file holds once a write has landed
Landed(w, writer) ==
    IF w[writer].overlapped THEN {w[writer].snap, CorruptFile} ELSE {w[writer].snap}

\* what the file holds after a write threw
AfterFailedWrite(file) == {file, CorruptFile}

\* generator.ts 13: Bun.write writes the audio file in place.  When the write
\* throws or the process dies during it, a file that was there before is
\* either still whole or torn.
AudioAfterCrash(a, writing) == {a \ torn : torn \in SUBSET (a \cap writing)}

\* a command that marks a chapter completed as soon as its synthesis returned
\* (sensitivity variant)
StateAfterSynthesisMarksCompleted(st, i) ==
    [st EXCEPT !.completed = Append(@, i)]

\* convert.ts 248-254: convertToSpeech returned; the RunState is not touched
\* before saveMp3File has resolved
StateAfterSynthesis(st, i) == st

\* what the file holds when the process dies
AfterCrash(file, w) ==
    IF \E x \in Writers : w[x].busy
    THEN {file, CorruptFile} \cup {w[x].snap : x \in {y \in Writers : w[y].busy}}
    ELSE {file}

InitRunIdle ==
    /\ exitAt = "none"
    /\ runs = 0
    /\ opts = NoOptions
    /\ disk = NullState
    /\ audio = {}
    /\ state = NullState
    /\ loaded = NullState
    /\ task = [i \in ChapterIds |-> "none"]
    /\ chunk = [i \in ChapterIds |-> 0]
    /\ rq = EmptyQueue
    /\ wr = [x \in Writers |-> NoWrite]
    /\ attempts = [i \in ChapterIds |-> 0]
    /\ synthCalls = [i \in ChapterIds |-> 0]
    /\ permits = [i \in ChapterIds |-> 0]
    /\ convFailed = {}
    /\ saveFailed = {}
    /\ faults = 0

InitPureIdle ==
    /\ fpc = "off"
    /\ bError = NoError
    /\ bAttempt = 0
    /\ bDelay = -1
    /\ bPrevDelay = -1
    /\ sText = <<>>
    /\ sMaxChars = 0
    /\ sStart = 0
    /\ sChunks = <<>>
    /\ fArg = <<>>
    /\ fRet = <<>>

InitLimiter ==
    /\ rpc = "off"
    /\ InitRunIdle
    /\ InitPureIdle
    /\ workload \in Workloads
    /\ now = StartNow
    /\ lastRequestTime = 0
    /\ rlq = EmptyQueue
    /\ cpc = [c \in Callers |-> "idle"]
    /\ retryCount = [c \in Callers |-> 0]
    /\ wake = [c \in Callers |-> 0]
    /\ calls = [c \in Callers |-> 0]
    /\ oks = [c \in Callers |-> 0]
    /\ lastErr = [c \in Callers |-> NoError]
    /\ thrown = [c \in Callers |-> NoError]
    /\ delayMs = [c \in Callers |-> 0]
    /\ lastStartAt = -1
    /\ prevStartAt = -1

SeqToSet(s) == {s[i] : i \in 1..Len(s)}

\* The jobs a queue operation started begin to run: fn() is invoked.
StartJobs(r, pc0) ==
    /\ rlq' = r.q
    /\ cpc' = [c \in Callers |->
                 IF c \in SeqToSet(r.started) THEN "running" ELSE pc0[c]]
    /\ calls' = [c \in Callers |->
                 IF c \in SeqToSet(r.started) THEN calls[c] + 1 ELSE calls[c]]
    /\ IF r.started = <<>>
       THEN UNCHANGED <<lastStartAt, prevStartAt>>
       ELSE /\ lastStartAt' = now
            /\ prevStartAt' = IF Len(r.started) > 1 THEN now ELSE lastStartAt

\* rate-limiter.ts 33-36: lastRequestTime = Date.now(); queue.add(() => fn())
Admit(c) ==
    /\ lastRequestTime' = now
    /\ StartJobs(QueueAdd(rlq, c, now, RLConcurrency, IntervalCap, IntervalMs),
                 [cpc EXCEPT ![c] = "queued"])

\* rate-limiter.ts 28-36: execute() up to its first await
EnterExecute(c) ==
    LET elapsed == now - lastRequestTime
    IN  IF elapsed < IntervalMs
        THEN /\ cpc' = [cpc EXCEPT ![c] = "throttle"]
             /\ wake' = [wake EXCEPT ![c] = now + (IntervalMs - elapsed)]
             /\ UNCHANGED <<lastRequestTime, rlq, calls, lastStartAt, prevStartAt>>
        ELSE /\ Admit(c)
             /\ UNCHANGED wake

\* a caller calls execute(fn)
Submit(c) ==
    /\ cpc[c] = "idle"
    /\ c <= workload.callers
    /\ \A d \in Callers : d < c => cpc[d] # "idle"
    /\ EnterExecute(c)
    /\ UNCHANGED <<workload, now, retryCount, oks, lastErr, thrown, delayMs>>
    /\ UNCHANGED <<runVars, pureVars>>

\* rate-limiter.ts 30: the throttle wait is over
ThrottleDone(c) ==
    /\ cpc[c] = "throttle"
    /\ wake[c] <= now
    /\ Admit(c)
    /\ UNCHANGED <<workload, now, retryCount, wake, oks, lastErr, thrown, delayMs>>
    /\ UNCHANGED <<runVars, pureVars>>

\* rate-limiter.ts 36-50: fn settles with response r
FnSettle(c, r) ==
    /\ cpc[c] = "running"
    /\ r \in workload.responses
    /\ LET q == QueueNext(rlq, now, RLConcurrency, IntervalCap, IntervalMs)
           err == ErrorOf(r)
           pc1 == IF IsOk(r) THEN "done"
                  ELSE IF ShouldRetry(retryCount[c], err) THEN "backoff"
                  ELSE "failed"
           delay == calculateBackoff(retryCount[c], is429(err), err)
       IN  /\ StartJobs(q, [cpc EXCEPT ![c] = pc1])
           /\ oks' = [oks EXCEPT ![c] = IF IsOk(r) THEN @ + 1 ELSE @]
           /\ lastErr' = [lastErr EXCEPT ![c] = IF IsOk(r) THEN @ ELSE err]
           /\ thrown' = [thrown EXCEPT ![c] = IF pc1 = "failed" THEN err ELSE @]
           /\ delayMs' = [delayMs EXCEPT ![c] = IF pc1 = "backoff" THEN delay ELSE @]
           /\ wake' = [wake EXCEPT ![c] = IF pc1 = "backoff" THEN now + delay ELSE @]
    /\ UNCHANGED <<workload, now, lastRequestTime, retryCount>>
    /\ UNCHANGED <<runVars, pureVars>>

\* rate-limiter.ts 45-46: the backoff wait is over, execute(fn, retryCount + 1)
BackoffDone(c) ==
    /\ cpc[c] = "backoff"
    /\ wake[c] <= now
    /\ retryCount' = [retryCount EXCEPT ![c] = @ + 1]
    /\ EnterExecute(c)
    /\ UNCHANGED <<workload, now, oks, lastErr, thrown, delayMs>>
    /\ UNCHANGED <<runVars, pureVars>>

\* PQueue's interval timer fires
IntervalFires ==
    /\ rlq.intervalId
    /\ rlq.nextTick <= now
    /\ StartJobs(QueueOnInterval(rlq, now, RLConcurrency, IntervalCap, IntervalMs), cpc)
    /\ UNCHANGED <<workload, now, lastRequestTime, retryCount, wake, oks, lastErr, thrown, delayMs>>
    /\ UNCHANGED <<runVars, pureVars>>

TimerDue ==
    \/ \E c \in Callers : cpc[c] \in {"throttle", "backoff"} /\ wake[c] <= now
    \/ rlq.intervalId /\ rlq.nextTick <= now

\* time passes; timers that are due fire first
Tick ==
    /\ ~TimerDue
    /\ now + TickMs <= StartNow + workload.ticks * TickMs
    /\ \E c \in Callers : cpc[c] # "idle"
    /\ now' = now + TickMs
    /\ UNCHANGED <<workload, lastRequestTime, rlq, cpc, retryCount, wake, calls, oks,
                   lastErr, thrown, delayMs, lastStartAt, prevStartAt>>
    /\ UNCHANGED <<runVars, pureVars>>

NextLimiter ==
    \/ \E c \in Callers : Submit(c)
    \/ \E c \in Callers : ThrottleDone(c)
    \/ \E c \in Callers, r \in Responses : FnSettle(c, r)
    \/ \E c \in Callers : BackoffDone(c)
    \/ IntervalFires
    \/ Tick

SpecLimiter == InitLimiter /\ [][NextLimiter]_vars

(***************************************************************************)
(* convertCommand.                                                         *)
(***************************************************************************)
InitRun ==
    /\ rpc = "idle"
    /\ InitRunIdle
    /\ InitPureIdle
    /\ workload = [callers |-> 0, responses |-> {}, ticks |-> 0]
    /\ now = StartNow
    /\ lastRequestTime = 0
    /\ rlq = EmptyQueue
    /\ cpc = [c \in Callers |-> "idle"]
    /\ retryCount = [c \in Callers |-> 0]
    /\ wake = [c \in Callers |-> 0]
    /\ calls = [c \in Callers |-> 0]
    /\ oks = [c \in Callers |-> 0]
    /\ lastErr = [c \in Callers |-> NoError]
    /\ thrown = [c \in Callers |-> NoError]
    /\ delayMs = [c \in Callers |-> 0]
    /\ lastStartAt = -1
    /\ prevStartAt = -1

Chapters(o) == 0..(o.input.total - 1)

RECURSIVE UpTo(_)
UpTo(n) == IF n = 0 THEN <<>> ELSE Append(UpTo(n - 1), n - 1)

Zeroes == [i \in ChapterIds |-> 0]

\* convert.ts 228-252: the tasks the queue started run up to their first
\* await: a chapter to skip returns, any other starts its first synthesis
\* call.  pm, at, sc, ch are the counters before the start.
StartTasks(r, tk, st, pm, at, sc, ch) ==
    LET begun == SeqToSet(r.started)
        conv == {i \in begun : ~shouldSkipChapter(i, st)}
    IN  /\ rq' = r.q
        /\ task' = [i \in ChapterIds |->
                      IF i \in conv THEN "synth"
                      ELSE IF i \in begun THEN "skipping" ELSE tk[i]]
        /\ permits' = [i \in ChapterIds |-> IF i \in begun THEN pm[i] + 1 ELSE pm[i]]
        /\ attempts' = [i \in ChapterIds |-> IF i \in conv THEN at[i] + 1 ELSE at[i]]
        /\ synthCalls' = [i \in ChapterIds |-> IF i \in conv THEN sc[i] + 1 ELSE sc[i]]
        /\ chunk' = [i \in ChapterIds |-> IF i \in conv THEN 1 ELSE ch[i]]

\* no task exists yet
NoTasks ==
    /\ rq' = EmptyQueue
    /\ task' = [i \in ChapterIds |-> "none"]
    /\ permits' = Zeroes
    /\ attempts' = Zeroes
    /\ synthCalls' = Zeroes
    /\ chunk' = Zeroes

\* convert.ts 190-228: the confirmation gate, then one queue task per chapter
Continue(o, st) ==
    IF ~o.yes /\ ~o.json
    THEN /\ rpc' = "exited"
         /\ exitAt' = "confirm"
         /\ NoTasks
    ELSE /\ rpc' = "tasks"
         /\ exitAt' = "none"
         /\ StartTasks(ProcessQueue([EmptyQueue EXCEPT !.items = UpTo(o.input.total)],
                                    0, CONCURRENT_REQUESTS, REQUESTS_PER_SECOND,
                                    QueueIntervalMs),
                       [i \in ChapterIds |-> IF i \in Chapters(o) THEN "queued" ELSE "none"],
                       st, Zeroes, Zeroes, Zeroes, Zeroes)

\* a run that takes any loaded state as its own (sensitivity variant)
StateForAnyInput(o, file) ==
    IF o.force THEN NullState ELSE Load(file)

\* a run that loads the state file even with --force (sensitivity variant)
StateForDespiteForce(o, file) ==
    LET ld == Load(file)
    IN  IF ld.kind = "state" /\ Mismatch(ld, o.input) THEN NullState ELSE ld

\* convert.ts 129-142: the state this run works from
StateFor(o, file) ==
    LET ld == IF o.force THEN NullState ELSE Load(file)
    IN  IF ld.kind = "state" /\ Mismatch(ld, o.input) THEN NullState ELSE ld

\* a command that asks for the API key before it looks at --dry-run
\* (sensitivity variant)
EarlyExitKeyFirst(o) ==
    IF ~o.apiKey THEN "apikey" ELSE IF o.dryRun THEN "dryrun" ELSE "none"

\* convert.ts 91-125: the dry run returns before getApiKey() can throw
EarlyExit(o) ==
    IF o.dryRun THEN "dryrun" ELSE IF ~o.apiKey THEN "apikey" ELSE "none"

\* convert.ts 75-165: a new invocation, up to its first state write
StartRun(o) ==
    /\ rpc \in {"idle", "exited", "aborted", "killed"}
    /\ runs < MaxRuns
    /\ runs = 0 => o \in FirstOptions
    /\ runs' = runs + 1
    /\ opts' = o
    /\ convFailed' = {}
    /\ saveFailed' = {}
    /\ UNCHANGED <<disk, audio, faults>>
    /\ IF EarlyExit(o) # "none"
       THEN /\ rpc' = IF EarlyExit(o) = "dryrun" THEN "exited" ELSE "aborted"
            /\ exitAt' = EarlyExit(o)
            /\ state' = NullState
            /\ loaded' = NullState
            /\ wr' = [x \in Writers |-> NoWrite]
            /\ NoTasks
       ELSE LET st == StateFor(o, disk)
            IN  /\ loaded' = st
                /\ IF st.kind = "state" /\ ~o.resume
                   THEN /\ rpc' = "exited"
                        /\ exitAt' = "found"
                        /\ state' = st
                        /\ wr' = [x \in Writers |-> NoWrite]
                        /\ NoTasks
                   ELSE IF st.kind # "state"
                   THEN /\ rpc' = "initsave"
                        /\ exitAt' = "none"
                        /\ state' = FreshState(o.input)
                        /\ wr' = BeginWrite([x \in Writers |-> NoWrite], InitWriter,
                                            FreshState(o.input))
                        /\ NoTasks
                   ELSE /\ state' = st
                        /\ wr' = [x \in Writers |-> NoWrite]
                        /\ Continue(o, st)
    /\ UNCHANGED <<limVars, pureVars>>

\* convert.ts 165: the first save settles
InitSaveDone(ok) ==
    /\ rpc = "initsave"
    /\ ok \/ faults < MaxFaults
    /\ faults' = IF ok THEN faults ELSE faults + 1
    /\ IF ok
       THEN /\ disk' \in Landed(wr, InitWriter)
            /\ wr' = EndWrite(wr, InitWriter)
            /\ Continue(opts, state)
            /\ UNCHANGED saveFailed
       ELSE /\ disk' \in AfterFailedWrite(disk)
            /\ wr' = EndWrite(wr, InitWriter)
            /\ rpc' = "aborted"
            /\ exitAt' = "initsave"
            /\ saveFailed' = saveFailed \cup {InitWriter}
            /\ UNCHANGED <<rq, task, permits, attempts, synthCalls, chunk>>
    /\ UNCHANGED <<runs, opts, audio, state, loaded, convFailed>>
    /\ UNCHANGED <<limVars, pureVars>>

\* a chapter task settled: the queue releases its slot and starts what it can
Release(tk) ==
    StartTasks(QueueNext(rq, 0, CONCURRENT_REQUESTS, REQUESTS_PER_SECOND, QueueIntervalMs),
               tk, state', permits, attempts, synthCalls, chunk)

\* the chapters whose saveMp3File is under way
WritingAudio == {i \in ChapterIds : task[i] = "audio"}

\* convert.ts 231-245: a chapter in completedChapters is skipped
SkipSettle(i) ==
    /\ rpc = "tasks"
    /\ task[i] = "skipping"
    /\ state' = state
    /\ Release([task EXCEPT ![i] = "skipped"])
    /\ UNCHANGED faults
    /\ UNCHANGED <<rpc, exitAt, runs, opts, disk, audio, loaded, wr, convFailed, saveFailed>>
    /\ UNCHANGED <<limVars, pureVars>>

\* convert.ts 278-286: the catch block records the failure and saves
Fail(i, reason, w) ==
    /\ state' = MarkFailed(state, i, reason)
    /\ wr' = BeginWrite(w, i, MarkFailed(state, i, reason))
    /\ task' = [task EXCEPT ![i] = "savingF"]

\* tts.ts 193-210: how a synthesis call ends: a 2xx response, HTTP 429 or
\* HTTP 401
SynthOutcomes == {"ok", "429", "401"}

\* tts.ts 74-114 under convert.ts 248-252: a synthesis call returns; a chapter
\* of several chunks goes on to its next convertSingleChunk call
SynthReturn(i, res) ==
    /\ rpc = "tasks"
    /\ task[i] = "synth"
    /\ res = "ok" \/ faults < MaxFaults
    /\ faults' = IF res = "ok" THEN faults ELSE faults + 1
    /\ IF res = "ok"
       THEN IF chunk[i] < NChunks(i)
            THEN /\ chunk' = [chunk EXCEPT ![i] = @ + 1]
                 /\ synthCalls' = [synthCalls EXCEPT ![i] = @ + 1]
                 /\ UNCHANGED <<task, state, wr, convFailed>>
            ELSE /\ task' = [task EXCEPT ![i] = "audio"]
                 /\ state' = StateAfterSynthesis(state, i)
                 /\ UNCHANGED <<chunk, synthCalls, wr, convFailed>>
       ELSE /\ Fail(i, res, wr)
            /\ convFailed' = convFailed \cup {i}
            /\ UNCHANGED <<chunk, synthCalls>>
    /\ UNCHANGED <<rpc, exitAt, runs, opts, disk, audio, loaded, rq, attempts, permits,
                   saveFailed>>
    /\ UNCHANGED <<limVars, pureVars>>

\* convert.ts 254-266: saveMp3File settles; on success the chapter is marked
\* completed and the state saved
AudioDone(i, ok) ==
    /\ rpc = "tasks"
    /\ task[i] = "audio"
    /\ ok \/ faults < MaxFaults
    /\ faults' = IF ok THEN faults ELSE faults + 1
    /\ IF ok
       THEN /\ audio' = audio \cup {i}
            /\ state' = MarkCompleted(state, i)
            /\ wr' = BeginWrite(wr, i, MarkCompleted(state, i))
            /\ task' = [task EXCEPT ![i] = "savingC"]
            /\ UNCHANGED convFailed
       ELSE /\ Fail(i, "write", wr)
            /\ convFailed' = convFailed \cup {i}
            /\ audio' \in AudioAfterCrash(audio, {i})
    /\ UNCHANGED <<rpc, exitAt, runs, opts, disk, loaded, rq, chunk, attempts, synthCalls,
                   permits, saveFailed>>
    /\ UNCHANGED <<limVars, pureVars>>

\* convert.ts 266 and 286: a state save of chapter i settles.  A save that
\* throws inside the try block lands in the catch block; one that throws in
\* the catch block rejects the task, Promise.all rejects and the outer catch
\* exits (convert.ts 303, 322-342).
SaveDone(i, ok) ==
    /\ rpc = "tasks"
    /\ task[i] \in {"savingC", "savingF"}
    /\ ok \/ faults < MaxFaults
    /\ faults' = IF ok THEN faults ELSE faults + 1
    /\ IF ok
       THEN /\ disk' \in Landed(wr, i)
            /\ wr' = EndWrite(wr, i)
            /\ state' = state
            /\ Release([task EXCEPT ![i] = "done"])
            /\ UNCHANGED <<rpc, exitAt, saveFailed, audio>>
       ELSE /\ saveFailed' = saveFailed \cup {i}
            /\ IF task[i] = "savingC"
               THEN /\ disk' \in AfterFailedWrite(disk)
                    /\ Fail(i, "save", EndWrite(wr, i))
                    /\ UNCHANGED <<rpc, exitAt, audio>>
               ELSE /\ disk' \in AfterCrash(disk, wr)
                    /\ wr' = [x \in Writers |-> NoWrite]
                    /\ task' = [task EXCEPT ![i] = "rejected"]
                    /\ rpc' = "aborted"
                    /\ exitAt' = "task"
                    /\ audio' \in AudioAfterCrash(audio, WritingAudio)
                    /\ state' = state
            /\ UNCHANGED <<rq, permits, attempts, synthCalls, chunk>>
    /\ UNCHANGED <<runs, opts, loaded, convFailed>>
    /\ UNCHANGED <<limVars, pureVars>>

\* convert.ts 215-220: the chapter queue's interval elapses.  Every chapter
\* is added before the first await (convert.ts 227), so the count of starts
\* is read again only while a job waits: the firings that matter are those.
OnIntervalRun ==
    /\ rpc = "tasks"
    /\ rq.intervalId
    /\ rq.count > 0
    /\ rq.items # <<>>
    /\ state' = state
    /\ UNCHANGED faults
    /\ StartTasks(QueueOnInterval(rq, 0, CONCURRENT_REQUESTS, REQUESTS_PER_SECOND,
                                  QueueIntervalMs),
                  task, state, permits, attempts, synthCalls, chunk)
    /\ UNCHANGED <<rpc, exitAt, runs, opts, disk, audio, loaded, wr, convFailed, saveFailed>>
    /\ UNCHANGED <<limVars, pureVars>>

\* convert.ts 303-320: every task settled; the report, and in text mode
\* with no failed chapter the state file is removed
AllSettled ==
    /\ rpc = "tasks"
    /\ \A i \in Chapters(opts) : task[i] \in {"skipped", "done"}
    /\ rpc' = "exited"
    /\ exitAt' = "report"
    /\ UNCHANGED faults
    /\ disk' = IF ~opts.json /\ Len(state.failed) = 0 THEN NullState ELSE disk
    /\ UNCHANGED <<runs, opts, audio, state, loaded, task, chunk, rq, wr, attempts,
                   synthCalls, permits, convFailed, saveFailed>>
    /\ UNCHANGED <<limVars, pureVars>>

\* the process is killed while it works: what it held in memory is gone,
\* the files stay as they are
Kill ==
    /\ rpc \in {"initsave", "tasks"}
    /\ faults < MaxFaults
    /\ faults' = faults + 1
    /\ rpc' = "killed"
    /\ exitAt' = "kill"
    /\ disk' \in AfterCrash(disk, wr)
    /\ wr' = [x \in Writers |-> NoWrite]
    /\ state' = NullState
    /\ loaded' = NullState
    /\ NoTasks
    /\ convFailed' = {}
    /\ saveFailed' = {}
    /\ audio' \in AudioAfterCrash(audio, WritingAudio)
    /\ UNCHANGED <<runs, opts>>
    /\ UNCHANGED <<limVars, pureVars>>

NextRun ==
    \/ \E o \in Options : StartRun(o)
    \/ \E ok \in BOOLEAN : InitSaveDone(ok)
    \/ \E i \in ChapterIds : SkipSettle(i)
    \/ \E i \in ChapterIds, res \in SynthOutcomes : SynthReturn(i, res)
    \/ \E i \in ChapterIds, ok \in BOOLEAN : AudioDone(i, ok)
    \/ \E i \in ChapterIds, ok \in BOOLEAN : SaveDone(i, ok)
    \/ OnIntervalRun
    \/ AllSettled
    \/ Kill

SpecRun == InitRun /\ [][NextRun]_vars

\* both programs, each started on its own
InitGates == InitLimiter \/ InitRun
NextGates == NextLimiter \/ NextRun
SpecGates == InitGates /\ [][NextGates]_vars

\* no RateLimiter is in use
InitLimIdle ==
    /\ workload = [callers |-> 0, responses |-> {}, ticks |-> 0]
    /\ now = StartNow
    /\ lastRequestTime = 0
    /\ rlq = EmptyQueue
    /\ cpc = [c \in Callers |-> "idle"]
    /\ retryCount = [c \in Callers |-> 0]
    /\ wake = [c \in Callers |-> 0]
    /\ calls = [c \in Callers |-> 0]
    /\ oks = [c \in Callers |-> 0]
    /\ lastErr = [c \in Callers |-> NoError]
    /\ thrown = [c \in Callers |-> NoError]
    /\ delayMs = [c \in Callers |-> 0]
    /\ lastStartAt = -1
    /\ prevStartAt = -1

(***************************************************************************)
(* Both gates under fair scheduling: timers fire, promises settle and the  *)
(* event loop runs what is ready.  The convert command is followed for its *)
(* last invocation, confirmed with --yes on the same book, in an output    *)
(* directory that an earlier invocation left empty or with the first       *)
(* chapter completed.  Kills and new invocations stay unforced.            *)
(***************************************************************************)
InitLastRun ==
    /\ rpc = "exited"
    /\ exitAt = "none"
    /\ runs = MaxRuns - 1
    /\ opts = NoOptions
    /\ disk \in {NullState, RunState("bookA", NChapters, <<0>>, <<>>)}
    /\ audio = CompletedSet(disk)
    /\ state = NullState
    /\ loaded = NullState
    /\ task = [i \in ChapterIds |-> "none"]
    /\ chunk = [i \in ChapterIds |-> 0]
    /\ rq = EmptyQueue
    /\ wr = [x \in Writers |-> NoWrite]
    /\ attempts = [i \in ChapterIds |-> 0]
    /\ synthCalls = [i \in ChapterIds |-> 0]
    /\ permits = [i \in ChapterIds |-> 0]
    /\ convFailed = {}
    /\ saveFailed = {}
    /\ faults = 0
    /\ InitPureIdle
    /\ InitLimIdle

\* the steps the convert process takes by itself once it runs
RunProgress ==
    \/ \E ok \in BOOLEAN : InitSaveDone(ok)
    \/ \E i \in ChapterIds : SkipSettle(i)
    \/ \E i \in ChapterIds, res \in SynthOutcomes : SynthReturn(i, res)
    \/ \E i \in ChapterIds, ok \in BOOLEAN : AudioDone(i, ok)
    \/ \E i \in ChapterIds, ok \in BOOLEAN : SaveDone(i, ok)
    \/ OnIntervalRun
    \/ AllSettled

ConfirmedOptions ==
    {o \in Options : o.yes /\ o.apiKey /\ ~o.dryRun
                        /\ o.input = [source |-> "bookA", total |-> NChapters]}

NextRunLive ==
    \/ \E o \in ConfirmedOptions : StartRun(o)
    \/ RunProgress
    \/ Kill

\* the explored clock has run out: no further Tick
HorizonReached == now + TickMs > StartNow + workload.ticks * TickMs

SpecGatesLive ==
    /\ InitLimiter \/ InitLastRun
    /\ [][NextLimiter \/ NextRunLive]_vars
    /\ WF_vars(NextLimiter)
    /\ WF_vars(RunProgress)

(***************************************************************************)
(* calculateBackoff on its own, called as execute() calls it for the       *)
(* attempts of one failing call.                                           *)
(***************************************************************************)
\* the errors convertSingleChunk throws
Errors == {ErrorOf(r) : r \in {x \in Responses : ~IsOk(x)}}

InitBackoff ==
    /\ rpc = "off"
    /\ InitRunIdle
    /\ InitLimIdle
    /\ fpc = "backoff"
    /\ bError \in Errors
    /\ bAttempt \in 0..MaxAttempt
    /\ bDelay = -1
    /\ bPrevDelay = -1
    /\ sText = <<>>
    /\ sMaxChars = 0
    /\ sStart = 0
    /\ sChunks = <<>>
    /\ fArg = <<>>
    /\ fRet = <<>>

\* rate-limiter.ts 43: calculateBackoff(retryCount, is429 ? error : undefined),
\* then the next attempt
BackoffCall ==
    /\ fpc = "backoff"
    /\ bAttempt <= MaxAttempt
    /\ bDelay' = calculateBackoff(bAttempt, is429(bError), bError)
    /\ bPrevDelay' = bDelay
    /\ bAttempt' = bAttempt + 1
    /\ UNCHANGED <<fpc, bError, sText, sMaxChars, sStart, sChunks, fArg, fRet>>
    /\ UNCHANGED <<limVars, runVars>>

NextBackoff == BackoffCall

SpecBackoff == InitBackoff /\ [][NextBackoff]_vars

(***************************************************************************)
(* splitTextIntoChunks (tts.ts 116-168).  A text is a sequence of          *)
(* characters: a letter, a period, a space or a newline.  Offsets are the  *)
(* code's, counted from 0.                                                 *)
(***************************************************************************)
Chars == {"a", ".", " ", "\n"}

\* what \s matches and what trim removes
IsWs(c) == c \in {" ", "\n"}

Rep(c, n) == [k \in 1..n |-> c]

\* every text up to MaxLen characters
ShortTexts == UNION {[1..n -> Chars] : n \in 0..MaxLen}

\* texts with one sentence or paragraph break near the end of the lookahead
\* window of the first cut
LongTexts ==
    { Rep("a", n) \o sep \o Rep("a", m) :
        n \in (Lookahead - MaxSlack)..(Lookahead + MaxCeiling + MaxSlack),
        sep \in {<<".", " ">>, <<"\n", "\n">>},
        m \in 0..1 }

Texts == ShortTexts \cup LongTexts
Ceilings == 1..MaxCeiling

\* the ceilings a caller should not pass
BadCeilings == (0 - MaxDeficit)..0

Max(a, b) == IF a > b THEN a ELSE b

\* text.substring(from, to): each argument is clamped to 0..length and the
\* smaller of the two is the start
substring(text, from, to) ==
    LET a == Max(0, Min(from, Len(text)))
        b == Max(0, Min(to, Len(text)))
    IN  SubSeq(text, Min(a, b) + 1, Max(a, b))

MaxOf(S) == CHOOSE x \in S : \A y \in S : y <= x

\* tts.ts 130-135: the offset in text.substring(from, to) just after the
\* period of the last match of /\.\s/g, -1 without a match
lastSentenceEnd(text, from, to) ==
    LET slice == substring(text, from, to)
        S == {k \in 1..(Len(slice) - 1) : slice[k] = "." /\ IsWs(slice[k + 1])}
    IN  IF S = {} THEN -1 ELSE (MaxOf(S) - 1) + 1

\* tts.ts 136: text.substring(from, to).lastIndexOf('\n\n')
lastParagraphEnd(text, from, to) ==
    LET slice == substring(text, from, to)
        S == {k \in 1..(Len(slice) - 1) : slice[k] = "\n" /\ slice[k + 1] = "\n"}
    IN  IF S = {} THEN -1 ELSE MaxOf(S) - 1

\* the cut with the whole rest of the text searched (sensitivity variant)
CutOfUnbounded(text, maxChars, start) ==
    LET end0 == start + maxChars
        sentenceEnd == lastSentenceEnd(text, start, Len(text))
        paragraphEnd == lastParagraphEnd(text, start, Len(text))
        end1 == IF end0 < Len(text)
                THEN IF paragraphEnd > maxChars - ParagraphTolerance /\ paragraphEnd > 0
                     THEN start + paragraphEnd
                     ELSE IF sentenceEnd > maxChars - SentenceTolerance
                          THEN start + sentenceEnd + 1
                          ELSE end0
                ELSE end0
    IN  IF end1 <= start THEN start + maxChars ELSE end1

\* the cut without the check that it advances (sensitivity variant)
CutOfNoGuard(text, maxChars, start) ==
    LET end0 == start + maxChars
        searchEnd == Min(end0 + Lookahead, Len(text))
        sentenceEnd == lastSentenceEnd(text, start, searchEnd)
        paragraphEnd == lastParagraphEnd(text, start, searchEnd)
    IN  IF end0 < Len(text)
        THEN IF paragraphEnd > maxChars - ParagraphTolerance /\ paragraphEnd > 0
             THEN start + paragraphEnd
             ELSE IF sentenceEnd > maxChars - SentenceTolerance
                  THEN start + sentenceEnd + 1
                  ELSE end0
        ELSE end0

\* tts.ts 121-150: the end of the chunk that begins at start
CutOf(text, maxChars, start) ==
    LET end0 == start + maxChars
        searchEnd == Min(end0 + Lookahead, Len(text))
        sentenceEnd == lastSentenceEnd(text, start, searchEnd)
        paragraphEnd == lastParagraphEnd(text, start, searchEnd)
        end1 == IF end0 < Len(text)
                THEN IF paragraphEnd > maxChars - ParagraphTolerance /\ paragraphEnd > 0
                     THEN start + paragraphEnd
                     ELSE IF sentenceEnd > maxChars - SentenceTolerance
                          THEN start + sentenceEnd + 1
                          ELSE end0
                ELSE end0
    IN  IF end1 <= start THEN start + maxChars ELSE end1

IsBlank(s) == \A k \in 1..Len(s) : IsWs(s[k])

trimStart(s) ==
    IF IsBlank(s) THEN <<>>
    ELSE SubSeq(s, CHOOSE k \in 1..Len(s) :
                       ~IsWs(s[k]) /\ \A j \in 1..(k - 1) : IsWs(s[j]),
                Len(s))

trimEnd(s) ==
    IF IsBlank(s) THEN <<>>
    ELSE SubSeq(s, 1, CHOOSE k \in 1..Len(s) :
                          ~IsWs(s[k]) /\ \A j \in (k + 1)..Len(s) : IsWs(s[j]))

\* a chunk that ends one character before the cut (sensitivity variant)
ChunkOfWithoutLast(text, start, end) ==
    LET piece == substring(text, start, end - 1)
    IN  IF start = 0 THEN trimStart(piece)
        ELSE IF end >= Len(text) THEN trimEnd(piece)
        ELSE piece

\* tts.ts 152-157: the chunk text[start, end), trimmed at the start of the
\* first chunk and at the end of the last
ChunkOf(text, start, end) ==
    LET piece == substring(text, start, end)
    IN  IF start = 0 THEN trimStart(piece)
        ELSE IF end >= Len(text) THEN trimEnd(piece)
        ELSE piece

InitSplit ==
    /\ rpc = "off"
    /\ InitRunIdle
    /\ InitLimIdle
    /\ fpc = "split"
    /\ bError = NoError
    /\ bAttempt = 0
    /\ bDelay = -1
    /\ bPrevDelay = -1
    /\ sText \in Texts
    /\ sMaxChars \in Ceilings
    /\ sStart = 0
    /\ sChunks = <<>>
    /\ fArg = <<>>
    /\ fRet = <<>>

\* tts.ts 120-165: one iteration of the while loop
SplitStep ==
    /\ fpc = "split"
    /\ sStart < Len(sText)
    /\ sStart > -MaxBelow
    /\ Len(sChunks) < MaxChunks
    /\ \E end \in {CutOf(sText, sMaxChars, sStart)} :
       \E trimmedChunk \in {ChunkOf(sText, sStart, end)} :
           /\ sChunks' = IF ~IsBlank(trimmedChunk)
                         THEN Append(sChunks, trimmedChunk)
                         ELSE sChunks
           /\ sStart' = end
    /\ UNCHANGED <<fpc, bError, bAttempt, bDelay, bPrevDelay, sText, sMaxChars, fArg, fRet>>
    /\ UNCHANGED <<limVars, runVars>>

\* tts.ts 120, 167: the loop ends and the chunks are returned
SplitReturn ==
    /\ fpc = "split"
    /\ sStart >= Len(sText)
    /\ fpc' = "splitDone"
    /\ UNCHANGED <<bError, bAttempt, bDelay, bPrevDelay, sText, sMaxChars, sStart, sChunks,
                   fArg, fRet>>
    /\ UNCHANGED <<limVars, runVars>>

NextSplit ==
    \/ SplitStep
    \/ SplitReturn

SpecSplit == InitSplit /\ [][NextSplit]_vars

\* splitTextIntoChunks called with a ceiling below 1
InitSplitBad ==
    /\ rpc = "off"
    /\ InitRunIdle
    /\ InitLimIdle
    /\ fpc = "split"
    /\ bError = NoError
    /\ bAttempt = 0
    /\ bDelay = -1
    /\ bPrevDelay = -1
    /\ sText \in ShortTexts
    /\ sMaxChars \in BadCeilings
    /\ sStart = 0
    /\ sChunks = <<>>
    /\ fArg = <<>>
    /\ fRet = <<>>

SpecSplitBad == InitSplitBad /\ [][NextSplit]_vars

\* The loop is sequential code: an iteration that can run does run.  The
\* texts are those enumerated in full.
InitSplitLive == InitSplit /\ sText \in ShortTexts

SpecSplitLive == InitSplitLive /\ [][NextSplit]_vars /\ WF_vars(NextSplit)

(***************************************************************************)
(* StateManager.load on its own (state-manager.ts 24-45, 60-103).  The     *)
(* content of the state file is a JSON value; a value is a record of its   *)
(* typeof t, its number n and whether that number is an integer.           *)
(***************************************************************************)
JString == [t |-> "string", n |-> 0, int |-> FALSE]
JUndefined == [t |-> "undefined", n |-> 0, int |-> FALSE]
JNumber(x) == [t |-> "number", n |-> x, int |-> TRUE]
\* the number x + 1/2
JFraction(x) == [t |-> "number", n |-> x, int |-> FALSE]

JArray(items) == [t |-> "array", items |-> items]
JNoArray == {[t |-> "string", items |-> <<>>], [t |-> "undefined", items |-> <<>>]}

\* an element of failedChapters
FailedEntry(index, title, error) ==
    [t |-> "object", index |-> index, title |-> title, error |-> error]

GoodEntries ==
    { FailedEntry(JNumber(0), JString, JString),
      FailedEntry(JNumber(FileTotal - 1), JString, JString) }

BadEntries ==
    { FailedEntry(JNumber(-1), JString, JString),
      FailedEntry(JNumber(FileTotal), JString, JString),
      FailedEntry(JFraction(0), JString, JString),
      FailedEntry(JString, JString, JString),
      FailedEntry(JUndefined, JString, JString),
      FailedEntry(JNumber(0), JUndefined, JString),
      FailedEntry(JNumber(0), JString, JNumber(0)),
      [t |-> "number", index |-> JUndefined, title |-> JUndefined, error |-> JUndefined] }

FailedArrays ==
    {JArray(<<>>)}
        \cup {JArray(<<e>>) : e \in GoodEntries \cup BadEntries}
        \cup {JArray(<<FailedEntry(JNumber(0), JString, JString), e>>) : e \in BadEntries}

CompletedArrays ==
    { JArray(<<>>), JArray(<<JNumber(0)>>), JArray(<<JNumber(FileTotal + 5)>>),
      JArray(<<JNumber(0), JString>>) }

\* what the state path can hold: no file, a file that is not JSON, the JSON
\* value null, or a JSON object
Files ==
    [kind : {"missing", "garbage", "null"},
     source : {JUndefined}, completedChapters : {JArray(<<>>)},
     failedChapters : {JArray(<<>>)}, timestamp : {JUndefined},
     totalChapters : {JUndefined}]
    \cup
    [kind : {"object"},
     source : {JString, JNumber(0), JUndefined},
     completedChapters : CompletedArrays \cup JNoArray,
     failedChapters : FailedArrays \cup JNoArray,
     timestamp : {JString, JNumber(0), JUndefined},
     totalChapters : {JNumber(FileTotal), JString, JUndefined}]

\* a validation that does not look at the index of a failed entry
\* (sensitivity variant)
isValidStateAnyIndex(s) ==
    /\ s.kind = "object"
    /\ s.source.t = "string"
    /\ s.completedChapters.t = "array"
    /\ s.failedChapters.t = "array"
    /\ s.timestamp.t = "string"
    /\ s.totalChapters.t = "number"
    /\ \A k \in 1..Len(s.completedChapters.items) : s.completedChapters.items[k].t = "number"
    /\ \A k \in 1..Len(s.failedChapters.items) :
          LET f == s.failedChapters.items[k]
          IN  f.t = "object" /\ f.title.t = "string" /\ f.error.t = "string"

\* state-manager.ts 60-103
isValidState(s) ==
    /\ s.kind = "object"
    /\ s.source.t = "string"
    /\ s.completedChapters.t = "array"
    /\ s.failedChapters.t = "array"
    /\ s.timestamp.t = "string"
    /\ s.totalChapters.t = "number"
    /\ \A k \in 1..Len(s.completedChapters.items) : s.completedChapters.items[k].t = "number"
    /\ \A k \in 1..Len(s.failedChapters.items) :
          LET f == s.failedChapters.items[k]
              validIndex ==
                  /\ f.index.t = "number"
                  /\ f.index.int
                  /\ f.index.n >= 0
                  /\ f.index.n < s.totalChapters.n
          IN  f.t = "object" /\ validIndex /\ f.title.t = "string" /\ f.error.t = "string"

LoadNull(file) == [res |-> "null", value |-> file]
LoadState(file) == [res |-> "state", value |-> file]

\* state-manager.ts 24-45: no file: null; file.json() throws on a file that
\* is not JSON and the catch returns null; an invalid state: null
load(file) ==
    IF file.kind = "missing" THEN LoadNull(file)
    ELSE IF file.kind = "garbage" THEN LoadNull(file)
    ELSE IF ~isValidState(file) THEN LoadNull(file)
    ELSE LoadState(file)

InitLoad ==
    /\ rpc = "off"
    /\ InitRunIdle
    /\ InitLimIdle
    /\ fpc = "load"
    /\ bError = NoError
    /\ bAttempt = 0
    /\ bDelay = -1
    /\ bPrevDelay = -1
    /\ sText = <<>>
    /\ sMaxChars = 0
    /\ sStart = 0
    /\ sChunks = <<>>
    /\ fArg \in Files
    /\ fRet = <<>>

LoadCall ==
    /\ fpc = "load"
    /\ fRet' = load(fArg)
    /\ fpc' = "loadDone"
    /\ UNCHANGED <<bError, bAttempt, bDelay, bPrevDelay, sText, sMaxChars, sStart, sChunks,
                   fArg>>
    /\ UNCHANGED <<limVars, runVars>>

NextLoad == LoadCall

SpecLoad == InitLoad /\ [][NextLoad]_vars

(***************************************************************************)
(* generateFileName on its own (generator.ts 17-20), called for two        *)
(* chapter indices of one book.  Strings are sequences of characters and   *)
(* are compared the way JavaScript compares them, code unit by code unit.  *)
(***************************************************************************)
DigitChars == <<"0", "1", "2", "3", "4", "5", "6", "7", "8", "9">>

\* String(n) for an integer n >= 0
RECURSIVE NumberToString(_)
NumberToString(n) ==
    IF n < 10 THEN <<DigitChars[n + 1]>>
    ELSE NumberToString(n \div 10) \o <<DigitChars[(n % 10) + 1]>>

\* String.prototype.padStart with a one-character filler
padStart(str, targetLength, padString) ==
    IF Len(str) >= targetLength THEN str
    ELSE Rep(padString, targetLength - Len(str)) \o str

\* a file name without the zero padding (sensitivity variant)
generateFileNameUnpadded(chapterIndex, totalChapters) ==
    NumberToString(chapterIndex + 1) \o <<".", "m", "p", "3">>

\* generator.ts 17-20
generateFileName(chapterIndex, totalChapters) ==
    LET padding == Len(NumberToString(totalChapters))
    IN  padStart(NumberToString(chapterIndex + 1), padding, "0") \o <<".", "m", "p", "3">>

\* the UTF-16 code unit of the characters a file name is made of
CodeUnit(c) ==
    CASE c = "." -> 46
      [] c = "m" -> 109
      [] c = "p" -> 112
      [] OTHER -> 47 + CHOOSE d \in 1..10 : DigitChars[d] = c

\* a < b on strings: the first differing code unit decides, a proper prefix
\* comes first
LexLess(a, b) ==
    \E k \in 1..Len(b) :
        /\ \A m \in 1..(k - 1) : m <= Len(a) /\ a[m] = b[m]
        /\ k > Len(a) \/ CodeUnit(a[k]) < CodeUnit(b[k])

\* the book sizes tried: the small ones, and those around one hundred
Totals == (1..MaxTotal) \cup {99, 100, 101}

\* chapter indices i < j of a book of each size
NameArgs ==
    UNION {{<<i, j, total>> : i \in 0..(total - 1), j \in 0..(total - 1)} : total \in Totals}

InitName ==
    /\ rpc = "off"
    /\ InitRunIdle
    /\ InitLimIdle
    /\ fpc = "name"
    /\ bError = NoError
    /\ bAttempt = 0
    /\ bDelay = -1
    /\ bPrevDelay = -1
    /\ sText = <<>>
    /\ sMaxChars = 0
    /\ sStart = 0
    /\ sChunks = <<>>
    /\ fArg \in {a \in NameArgs : a[1] < a[2]}
    /\ fRet = <<>>

NameCall ==
    /\ fpc = "name"
    /\ fRet' = <<generateFileName(fArg[1], fArg[3]), generateFileName(fArg[2], fArg[3])>>
    /\ fpc' = "nameDone"
    /\ UNCHANGED <<bError, bAttempt, bDelay, bPrevDelay, sText, sMaxChars, sStart, sChunks,
                   fArg>>
    /\ UNCHANGED <<limVars, runVars>>

NextName == NameCall

SpecName == InitName /\ [][NextName]_vars

(***************************************************************************)
(* convertToSpeech on its own, multi-chunk path (tts.ts 83-112): the loop  *)
(* over the chunks of one chapter, one convertSingleChunk call awaited per *)
(* iteration, and the byte concatenation of the audio buffers.  The log    *)
(* records when each call starts and how it settles.                       *)
(***************************************************************************)
\* the audio a synthesis call can answer with, as bytes
AudioBytes == {<<>>, <<1>>, <<2, 3>>}

\* the errors a synthesis call can throw
ChunkErrors == {"429", "401"}

\* tts.ts 100-108: the buffers copied into one array at growing offsets
RECURSIVE CombineFrom(_, _, _, _)
CombineFrom(audioBuffers, k, offset, combined) ==
    IF k > Len(audioBuffers) THEN combined
    ELSE LET buf == audioBuffers[k]
         IN  CombineFrom(audioBuffers, k + 1, offset + Len(buf),
                         [b \in 1..Len(combined) |->
                             IF b > offset /\ b <= offset + Len(buf)
                             THEN buf[b - offset] ELSE combined[b]])

RECURSIVE totalLength(_)
totalLength(audioBuffers) ==
    IF audioBuffers = <<>> THEN 0
    ELSE Len(Head(audioBuffers)) + totalLength(Tail(audioBuffers))

\* a concatenation that puts every buffer at offset 0 (sensitivity variant)
CombineAtZero(audioBuffers) ==
    LET RECURSIVE go(_, _)
        go(k, combined) ==
            IF k > Len(audioBuffers) THEN combined
            ELSE go(k + 1, [b \in 1..Len(combined) |->
                               IF b <= Len(audioBuffers[k])
                               THEN audioBuffers[k][b] ELSE combined[b]])
    IN  go(1, [b \in 1..totalLength(audioBuffers) |-> 0])

Combine(audioBuffers) ==
    CombineFrom(audioBuffers, 1, 0, [b \in 1..totalLength(audioBuffers) |-> 0])

NoConversion == [i |-> 0, audioBuffers |-> <<>>, log |-> <<>>, audio |-> <<>>, error |-> "none"]

InitConvert ==
    /\ rpc = "off"
    /\ InitRunIdle
    /\ InitLimIdle
    /\ fpc = "conv"
    /\ bError = NoError
    /\ bAttempt = 0
    /\ bDelay = -1
    /\ bPrevDelay = -1
    /\ sText = <<>>
    /\ sMaxChars = 0
    /\ sStart = 0
    /\ sChunks = <<>>
    /\ fArg \in {[k \in 1..n |-> k] : n \in 2..MaxParts}
    /\ fRet = NoConversion

convUnchanged ==
    /\ UNCHANGED <<bError, bAttempt, bDelay, bPrevDelay, sText, sMaxChars, sStart, sChunks,
                   fArg>>
    /\ UNCHANGED <<limVars, runVars>>

\* tts.ts 87-92: the loop body reaches convertSingleChunk for chunk i + 1
ConvCall ==
    /\ fpc = "conv"
    /\ fRet.i < Len(fArg)
    /\ fRet' = [fRet EXCEPT !.log = Append(@, [ev |-> "start", chunk |-> fRet.i + 1])]
    /\ fpc' = "convCall"
    /\ convUnchanged

\* tts.ts 92-93: the awaited call resolves; its audio is pushed
ConvOk(bytes) ==
    /\ fpc = "convCall"
    /\ fRet' = [fRet EXCEPT !.audioBuffers = Append(@, bytes),
                            !.i = @ + 1,
                            !.log = Append(@, [ev |-> "ok", chunk |-> fRet.i + 1])]
    /\ fpc' = "conv"
    /\ convUnchanged

\* tts.ts 94-96: the awaited call rejects; convertToSpeech throws
ConvThrow(e) ==
    /\ fpc = "convCall"
    /\ fRet' = [fRet EXCEPT !.error = e,
                            !.log = Append(@, [ev |-> "fail", chunk |-> fRet.i + 1])]
    /\ fpc' = "convThrown"
    /\ convUnchanged

\* tts.ts 98-112: the loop is over; the buffers are combined and returned
ConvFinish ==
    /\ fpc = "conv"
    /\ fRet.i >= Len(fArg)
    /\ fRet' = [fRet EXCEPT !.audio = Combine(fRet.audioBuffers)]
    /\ fpc' = "convDone"
    /\ convUnchanged

NextConvert ==
    \/ ConvCall
    \/ \E bytes \in AudioBytes : ConvOk(bytes)
    \/ \E e \in ChunkErrors : ConvThrow(e)
    \/ ConvFinish

SpecConvert == InitConvert /\ [][NextConvert]_vars

(***************************************************************************)
(* StateManager.save on its own (state-manager.ts 19-22): one save of a    *)
(* new state over what the state path holds, and a crash of the process    *)
(* while Bun.write is under way.                                           *)
(***************************************************************************)
\* up to two chapters completed, in either order
CompletedLists ==
    {<<>>} \cup {<<i>> : i \in ChapterIds}
           \cup {p \in ChapterIds \X ChapterIds : p[1] # p[2]}

FailedLists == {<<>>} \cup {<<[index |-> i, error |-> "429"]>> : i \in ChapterIds}

SavedStates ==
    {RunState("bookA", NChapters, c, f) : c \in CompletedLists, f \in FailedLists}

InitSave ==
    /\ rpc = "off"
    /\ exitAt = "none"
    /\ runs = 0
    /\ opts = NoOptions
    /\ disk \in SavedStates \cup {NullState}
    /\ audio = {}
    /\ state \in SavedStates
    /\ loaded = NullState
    /\ task = [i \in ChapterIds |-> "none"]
    /\ chunk = [i \in ChapterIds |-> 0]
    /\ rq = EmptyQueue
    /\ wr = [x \in Writers |-> NoWrite]
    /\ attempts = [i \in ChapterIds |-> 0]
    /\ synthCalls = [i \in ChapterIds |-> 0]
    /\ permits = [i \in ChapterIds |-> 0]
    /\ convFailed = {}
    /\ saveFailed = {}
    /\ faults = 0
    /\ InitLimIdle
    /\ fpc = "save"
    /\ bError = NoError
    /\ bAttempt = 0
    /\ bDelay = -1
    /\ bPrevDelay = -1
    /\ sText = <<>>
    /\ sMaxChars = 0
    /\ sStart = 0
    /\ sChunks = <<>>
    /\ fArg = disk
    /\ fRet = <<>>

saveUnchanged ==
    UNCHANGED <<rpc, exitAt, runs, opts, audio, state, loaded, task, chunk, rq, attempts,
                synthCalls, permits, convFailed, saveFailed, faults, limVars,
                bError, bAttempt, bDelay, bPrevDelay, sText, sMaxChars, sStart, sChunks,
                fArg, fRet>>

\* state-manager.ts 21: Bun.write(statePath, JSON.stringify(state, null, 2)) starts
SaveBegin ==
    /\ fpc = "save"
    /\ wr' = BeginWrite(wr, InitWriter, state)
    /\ fpc' = "saving"
    /\ UNCHANGED disk
    /\ saveUnchanged

\* the write lands and save resolves
SaveLand ==
    /\ fpc = "saving"
    /\ disk' \in Landed(wr, InitWriter)
    /\ wr' = EndWrite(wr, InitWriter)
    /\ fpc' = "saved"
    /\ saveUnchanged

\* the process dies while the write is under way
SaveCrash ==
    /\ fpc = "saving"
    /\ disk' \in AfterCrash(disk, wr)
    /\ wr' = [x \in Writers |-> NoWrite]
    /\ fpc' = "crashed"
    /\ saveUnchanged

NextSave ==
    \/ SaveBegin
    \/ SaveLand
    \/ SaveCrash

SpecSave == InitSave /\ [][NextSave]_vars

(***************************************************************************)
(* Properties.                                                             *)
(***************************************************************************)
\* callers whose protected call is admitted and has not settled
Running == {c \in Callers : cpc[c] = "running"}

\* chapters whose queue task is admitted and has not settled
InFlight ==
    {i \in ChapterIds : task[i] \in {"skipping", "synth", "audio", "savingC", "savingF"}}

\* the run printed its report (convert.ts 306-320)
AtReport == rpc = "exited" /\ exitAt = "report"

\* the chapters that got a synthesis call in this run
Synthesized == {i \in ChapterIds : synthCalls[i] > 0}

\* the state-file writes in flight
BusyWrites == {x \in Writers : wr[x].busy}

\* C1: under both gates, the chapter queue of the convert command and the
\* queue inside RateLimiter.execute, the number of protected calls that are
\* admitted and not yet settled never exceeds the configured concurrency.
C1_ConcurrencyCap ==
    /\ Cardinality(InFlight) <= CONCURRENT_REQUESTS
    /\ Cardinality(Running) <= RLConcurrency

\* C1: the cap is reached while a chapter waits although the interval would
\* allow another start: only the concurrency cap holds it back.
C1_CapHoldsJobBack ==
    /\ rpc = "tasks"
    /\ Cardinality(InFlight) = CONCURRENT_REQUESTS
    /\ rq.items # <<>>
    /\ rq.count < REQUESTS_PER_SECOND

\* C2: two consecutive starts of protected calls under RateLimiter.execute
\* are at least intervalMs apart, retries included.
C2_MinimumSpacing ==
    prevStartAt >= 0 => lastStartAt - prevStartAt >= IntervalMs

\* C3: every synthesis HTTP call was admitted by the gate on its own: a
\* chapter never has more synthesis calls than admissions.
C3_EveryCallAdmitted ==
    \A i \in ChapterIds : synthCalls[i] <= permits[i]

\* C4: no chapter is both in completedChapters and in failedChapters, neither
\* in the in-memory RunState nor in the state file.
C4_CompletedFailedDisjoint ==
    /\ CompletedSet(state) \cap FailedIndices(state) = {}
    /\ CompletedSet(disk) \cap FailedIndices(disk) = {}

\* C5: a resumed run makes no synthesis call for a chapter of the loaded
\* completed set; when every conversion and save of the resumed run succeeds,
\* it has synthesized exactly the other chapters, each chunk once, and ends
\* with every chapter ordinal in completedChapters.
C5_ResumeProcessesRemaining ==
    /\ (rpc = "tasks" \/ AtReport) /\ loaded.kind = "state" =>
          \A i \in CompletedSet(loaded) : synthCalls[i] = 0
    /\ AtReport /\ opts.resume /\ loaded.kind = "state"
         /\ convFailed = {} /\ saveFailed = {} =>
          /\ Synthesized = Chapters(opts) \ CompletedSet(loaded)
          /\ \A i \in Synthesized : synthCalls[i] = NChunks(i)
          /\ CompletedSet(state) = Chapters(opts)

\* C5: a second invocation with --resume reported after it started from a
\* state file holding one completed chapter and no failed one; the only
\* failure so far is the one that ended the first invocation.
C5_ResumedAfterKill ==
    /\ AtReport
    /\ runs = 2
    /\ opts.resume
    /\ loaded.kind = "state"
    /\ Cardinality(CompletedSet(loaded)) = 1
    /\ loaded.failed = <<>>
    /\ faults = 1
    /\ convFailed = {}
    /\ saveFailed = {}
    /\ Cardinality(Synthesized) = NChapters - 1

\* the run can take a step of its own: a task is in flight, every task is
\* settled, or a waiting chapter is started by the next interval
CanProceed ==
    \/ InFlight # {}
    \/ \A i \in Chapters(opts) : task[i] \in {"skipped", "done"}
    \/ rq.items # <<>> /\ rq.intervalId /\ rq.count > 0

C7_SavesSerialized ==
    /\ Cardinality(BusyWrites) <= 1
    /\ rpc = "tasks" /\ BusyWrites = {} /\ saveFailed = {} => disk = state

\* C8: at the report, in text and in JSON mode, the state file is gone if and
\* only if failedChapters is empty.
C8_ClearedIffNoFailure ==
    AtReport => (disk.kind = "absent" <=> state.failed = <<>>)

\* C9: a run that finds a state file of another source or chapter count
\* starts from a fresh empty RunState and goes on to save it, --resume or
\* not; a run without loaded state skips no chapter.
C9_MismatchIsAbsent ==
    /\ [](loaded.kind = "absent" =>
            \A i \in ChapterIds : task[i] \notin {"skipping", "skipped"})
    /\ [][(/\ runs' = runs + 1
           /\ ~opts'.dryRun
           /\ opts'.apiKey
           /\ disk.kind = "state"
           /\ (disk.source # opts'.input.source \/ disk.total # opts'.input.total))
          => (/\ loaded' = NullState
              /\ state' = FreshState(opts'.input)
              /\ rpc' = "initsave")]_vars

\* C9: a second invocation with --resume has started while the state file of
\* another source with as many chapters, one of them completed, is in place.
C9_ResumeOnOtherSource ==
    /\ rpc = "initsave"
    /\ runs = 2
    /\ opts.resume
    /\ disk.kind = "state"
    /\ disk.source # opts.input.source
    /\ disk.total = opts.input.total
    /\ disk.completed # <<>>
    /\ loaded = NullState

\* C10: one execute() invokes fn at most maxRetries + 1 times; it returns
\* after its first and only success, and throws the error of its last call
\* once the call is not retryable or the retries are used up.
C10_RetryBudget ==
    \A c \in Callers :
        /\ calls[c] <= MaxRetries + 1
        /\ retryCount[c] <= MaxRetries
        /\ oks[c] <= 1
        /\ cpc[c] \in {"done", "failed"} => calls[c] = retryCount[c] + 1
        /\ cpc[c] = "done" => oks[c] = 1
        /\ cpc[c] = "failed" =>
              /\ oks[c] = 0
              /\ thrown[c] = lastErr[c]
              /\ calls[c] = MaxRetries + 1 \/ ~(is429(thrown[c]) \/ is5xx(thrown[c]))

\* C10: an execute() threw after using up its retries.
C10_BudgetExhausted ==
    \E c \in Callers :
        /\ cpc[c] = "failed"
        /\ calls[c] = MaxRetries + 1
        /\ is429(thrown[c]) \/ is5xx(thrown[c])

\* C11: a failure with status 401, or with any other non-2xx status that is
\* not 429 or 5xx, ends execute() at once: the caller is never found waiting
\* for a retry or past one, and execute() threw that error.
C11_ClientErrorNotRetried ==
    \A c \in Callers :
        lastErr[c].kind \in {"401", "4xx"} =>
            /\ cpc[c] = "failed"
            /\ thrown[c] = lastErr[c]

\* C12: execute() gives up on a failure that came without an HTTP response
\* only after the retries are used up.
C12_NetworkFailureRetried ==
    \A c \in Callers :
        (cpc[c] = "failed" /\ thrown[c].kind = "network") => retryCount[c] = MaxRetries

\* C13: the wait before the retry of a 429 that carries a hint of h seconds
\* is h seconds, and one second when h is 0.
C13_HintClampedToOneSecond ==
    \A c \in Callers :
        (cpc[c] = "backoff" /\ lastErr[c].kind = "429" /\ lastErr[c].retryAfter >= 0) =>
            delayMs[c] = 1000 * (IF lastErr[c].retryAfter < 1 THEN 1 ELSE lastErr[c].retryAfter)

\* C14: the wait before the retry of a 429 without a usable hint is the same
\* for every attempt: the wait before the first retry.
C14_FixedDefaultWait ==
    \A c \in Callers :
        (cpc[c] = "backoff" /\ lastErr[c].kind = "429" /\ lastErr[c].retryAfter < 0) =>
            delayMs[c] = calculateBackoff(0, TRUE, lastErr[c])

\* C15: for a 5xx failure the delay before retry number a is
\* min(2000 * 2^a, 30000) ms: 2000 ms for a = 0, never above 30000 ms, never
\* below the delay of the retry before, and twice that delay unless the
\* ceiling is reached.
C15_ExponentialBackoff ==
    (fpc = "backoff" /\ bError.kind = "5xx" /\ bDelay >= 0) =>
        /\ bDelay = Min(2000 * Pow2(bAttempt - 1), 30000)
        /\ bDelay <= 30000
        /\ bAttempt - 1 = 0 => bDelay = 2000
        /\ bPrevDelay >= 0 =>
              /\ bPrevDelay <= bDelay
              /\ bDelay = 2 * bPrevDelay \/ bDelay = 30000

\* C15: the delay for a 5xx failure doubled up to 16000 ms and then met the
\* ceiling.
C15_CeilingReached ==
    /\ fpc = "backoff"
    /\ bError.kind = "5xx"
    /\ bAttempt - 1 = 4
    /\ bPrevDelay = 16000
    /\ bDelay = 30000

\* C16: the second synthesis call of chapter 2 (index 1) is retried when it
\* returns HTTP 429: the chapter is recorded as failed for a 429 at its second
\* chunk only after that call was made maxRetries + 1 times.
C16_RateLimitedCallRetried ==
    (/\ 1 \in convFailed
     /\ chunk[1] = 2
     /\ \E k \in 1..Len(state.failed) :
            state.failed[k].index = 1 /\ state.failed[k].error = "429") =>
        synthCalls[1] - 1 = MaxRetries + 1

\* C17: a run in which a synthesis call returned HTTP 401 does not go on to
\* its report and a normal return.
C17_UnauthorizedHaltsRun ==
    (runs = 1 /\ \E k \in 1..Len(state.failed) : state.failed[k].error = "401") =>
        ~AtReport

\* C18: when a run reports, every chapter whose conversion failed in it has
\* an entry in the failed list in memory, which the summary prints, and in
\* the state file.
C18_FailedChaptersReported ==
    AtReport =>
        \A i \in convFailed :
            /\ i \in FailedIndices(state)
            /\ disk.kind = "state"
            /\ i \in FailedIndices(disk)

\* the chunks joined in order
RECURSIVE Concat(_)
Concat(chs) == IF chs = <<>> THEN <<>> ELSE Head(chs) \o Concat(Tail(chs))

\* s[lo..hi] with each whitespace run of s replaced by one space and the
\* runs at the two ends of s removed
RECURSIVE CollapseRange(_, _, _)
CollapseRange(s, lo, hi) ==
    IF lo > hi THEN <<>>
    ELSE IF lo = hi
    THEN IF ~IsWs(s[lo]) THEN <<s[lo]>>
         ELSE IF /\ lo > 1
                 /\ ~IsWs(s[lo - 1])
                 /\ \E j \in (lo + 1)..Len(s) : ~IsWs(s[j])
              THEN <<" ">>
              ELSE <<>>
    ELSE LET mid == (lo + hi) \div 2
         IN  CollapseRange(s, lo, mid) \o CollapseRange(s, mid + 1, hi)

Collapse(s) == CollapseRange(s, 1, Len(s))

\* C19: the chunks splitTextIntoChunks returned, joined in order and with
\* whitespace collapsed, read as the text with whitespace collapsed.
C19_WhitespaceCollapsedRoundTrip ==
    fpc = "splitDone" => Collapse(Concat(sChunks)) = Collapse(sText)

\* C20: no chunk is longer than the ceiling plus the 500 characters of the
\* lookahead window.
C20_ChunkLengthBound ==
    \A k \in 1..Len(sChunks) : Len(sChunks[k]) <= sMaxChars + 500

\* C20: a text longer than ceiling + 500 was split and one of its chunks is
\* exactly ceiling + 500 characters long.
C20_LongestChunk ==
    /\ fpc = "splitDone"
    /\ Len(sText) > sMaxChars + 500
    /\ \E k \in 1..Len(sChunks) : Len(sChunks[k]) = sMaxChars + 500

\* C21: for a ceiling of at least 1 every iteration of the split loop ends
\* with a cut beyond start, so start strictly increases, and the loop ends.
C21_StartAdvancesAndTerminates ==
    /\ [](fpc = "split" /\ sStart < Len(sText) /\ sMaxChars >= 1 =>
             CutOf(sText, sMaxChars, sStart) > sStart)
    /\ [][fpc = "split" /\ sMaxChars >= 1 => sStart' >= sStart]_vars
    /\ (fpc = "split" /\ sMaxChars >= 1) ~> (fpc = "splitDone")

\* C21: a text without any sentence or paragraph break, longer than the
\* ceiling, was split into several chunks.
C21_SplitWithoutBreaks ==
    /\ fpc = "splitDone"
    /\ \A k \in 1..Len(sText) : sText[k] = "a"
    /\ Len(sText) > sMaxChars
    /\ Len(sChunks) > 1

\* C22: a call with a ceiling of 0 or below is rejected: it pushes no chunk
\* and does not return chunks.
C22_NonPositiveCeilingRejected ==
    sMaxChars < 1 => (fpc # "splitDone" /\ sChunks = <<>>)

\* C23: load returns absent or the stored state and nothing else.  It
\* returns absent exactly when the file is missing, is not parseable, is not
\* an object, lacks source, completedChapters, failedChapters, timestamp or
\* totalChapters or holds one of the wrong type, or has a failed entry that
\* is malformed or whose index is not an integer in [0, totalChapters).
C23_LoadFailsOpen ==
    fpc = "loadDone" =>
        LET f == fArg
            wrongField ==
                \/ f.source.t # "string"
                \/ f.completedChapters.t # "array"
                \/ \E k \in 1..Len(f.completedChapters.items) :
                       f.completedChapters.items[k].t # "number"
                \/ f.failedChapters.t # "array"
                \/ f.timestamp.t # "string"
                \/ f.totalChapters.t # "number"
            wrongEntry ==
                \E k \in 1..Len(f.failedChapters.items) :
                    LET e == f.failedChapters.items[k]
                    IN  \/ e.t # "object"
                        \/ e.title.t # "string"
                        \/ e.error.t # "string"
                        \/ e.index.t # "number"
                        \/ ~e.index.int
                        \/ e.index.n < 0
                        \/ e.index.n >= f.totalChapters.n
            absent == f.kind \in {"missing", "garbage", "null"} \/ wrongField \/ wrongEntry
        IN  /\ fRet.res \in {"null", "state"}
            /\ fRet.res = "null" <=> absent
            /\ fRet.res = "state" => fRet.value = fArg

\* C23: load returned absent for a file that is well-formed but for a failed
\* entry whose index equals totalChapters.
C23_IndexOutOfRangeRejected ==
    /\ fpc = "loadDone"
    /\ fRet.res = "null"
    /\ fArg.kind = "object"
    /\ fArg.source.t = "string"
    /\ fArg.timestamp.t = "string"
    /\ fArg.totalChapters.t = "number"
    /\ fArg.completedChapters = JArray(<<JNumber(0)>>)
    /\ fArg.failedChapters = JArray(<<FailedEntry(JNumber(FileTotal), JString, JString)>>)

\* C24: after a crash during save the state file holds the complete state
\* it held before the save began or the complete new state, and load of a
\* location that held a valid state returns a state.
C24_CrashLeavesOldOrNew ==
    fpc = "crashed" =>
        /\ disk \in {fArg, state}
        /\ fArg.kind = "state" => Load(disk).kind = "state"

\* C25: shouldSkipChapter(i, state) holds exactly when a state is present
\* and holds i in completedChapters.  A chapter whose task started is skipped
\* exactly when that holds for the state the run started from; a skipped
\* chapter gets no synthesis call and a skip changes neither the RunState nor
\* the files; a chapter that is not skipped gets its synthesis call.
C25_SkipIffCompleted ==
    /\ [](\A i \in ChapterIds :
            /\ \A st \in {state, loaded, disk} :
                  shouldSkipChapter(i, st) <=> (st.kind = "state" /\ i \in CompletedSet(st))
            /\ task[i] \in {"skipping", "skipped"} =>
                  /\ loaded.kind = "state" /\ i \in CompletedSet(loaded)
                  /\ synthCalls[i] = 0
                  /\ attempts[i] = 0
                  /\ i \notin convFailed
            /\ task[i] \in {"synth", "audio", "savingC", "savingF", "done"} =>
                  /\ ~(loaded.kind = "state" /\ i \in CompletedSet(loaded))
                  /\ synthCalls[i] >= 1)
    /\ [][\A i \in ChapterIds :
            task[i] = "skipping" /\ task'[i] = "skipped" =>
                state' = state /\ disk' = disk /\ audio' = audio /\ wr' = wr]_vars

\* C25: a run reported in which one chapter was skipped and another was
\* synthesized.
C25_OneSkippedOneProcessed ==
    /\ AtReport
    /\ \E i \in ChapterIds, j \in ChapterIds :
          /\ task[i] = "skipped"
          /\ task[j] = "done"
          /\ synthCalls[j] >= 1

\* C26: the gates never drop work.  A caller of execute() that waits for its
\* throttle delay or in the limiter's queue is eventually running its
\* protected call, unless the explored clock ends first and then the caller
\* is still held by the queue or by its timer and only waits for time to
\* pass.  A chapter task waiting in the chapter queue is eventually started,
\* unless the process is killed or exits with an error first.  A waiting
\* caller or task only ever stays waiting or is started.
WaitsOnlyForClock(c) ==
    /\ HorizonReached
    /\ \/ cpc[c] = "throttle" /\ wake[c] > now
       \/ /\ cpc[c] = "queued"
          /\ \E k \in 1..Len(rlq.items) : rlq.items[k] = c
          /\ rlq.intervalId
          /\ rlq.nextTick > now

C26_NoTaskDropped ==
    /\ \A c \in Callers :
          (cpc[c] \in {"throttle", "queued"}) ~>
              (cpc[c] = "running" \/ WaitsOnlyForClock(c))
    /\ \A i \in ChapterIds :
          (task[i] = "queued") ~>
              (task[i] \in {"skipping", "synth"} \/ rpc \in {"killed", "aborted"})
    /\ [][/\ \A c \in Callers :
               cpc[c] = "queued" => cpc'[c] \in {"queued", "running"}
           /\ \A i \in ChapterIds :
               task[i] = "queued" =>
                   \/ task'[i] \in {"queued", "skipping", "synth"}
                   \/ rpc' \in {"killed", "aborted"}]_vars

C26_LastChapterAdmittedAfterWaiting ==
    /\ rpc = "tasks"
    /\ task[NChapters - 1] = "synth"
    /\ permits[NChapters - 1] = 1
    /\ \A i \in ChapterIds \ {NChapters - 1} : task[i] \in {"done", "skipped"}

\* the number a sequence of digits denotes
RECURSIVE DigitsValue(_)
DigitsValue(ds) ==
    IF ds = <<>> THEN 0
    ELSE 10 * DigitsValue(SubSeq(ds, 1, Len(ds) - 1))
         + (CHOOSE d \in 0..9 : DigitChars[d + 1] = ds[Len(ds)])

\* C27: for every totalChapters >= 1 and indices 0 <= i < j < totalChapters the
\* two file names differ and the name of i sorts before the name of j as a
\* string; each name is the number i + 1 written in as many digits as
\* totalChapters has, zeros in front, followed by ".mp3".
C27_NamesSortInChapterOrder ==
    fpc = "nameDone" =>
        LET i == fArg[1]
            j == fArg[2]
            width == Len(NumberToString(fArg[3]))
            wellFormed(name, n) ==
                /\ Len(name) = width + 4
                /\ SubSeq(name, width + 1, width + 4) = <<".", "m", "p", "3">>
                /\ \A k \in 1..width : \E d \in 1..10 : DigitChars[d] = name[k]
                /\ DigitsValue(SubSeq(name, 1, width)) = n + 1
        IN  /\ fRet[1] = generateFileName(i, fArg[3])
            /\ fRet[2] = generateFileName(j, fArg[3])
            /\ fRet[1] # fRet[2]
            /\ LexLess(fRet[1], fRet[2])
            /\ ~LexLess(fRet[2], fRet[1])
            /\ wellFormed(fRet[1], i)
            /\ wellFormed(fRet[2], j)

C27_NinthBeforeTenth ==
    /\ fpc = "nameDone"
    /\ fArg = <<8, 9, 10>>
    /\ fRet = << <<"0", "9", ".", "m", "p", "3">>, <<"1", "0", ".", "m", "p", "3">> >>

\* C28: a dry run converts nothing.  The invocation with --dry-run ends at
\* once with a normal exit, with or without an API key; it makes no synthesis
\* call, starts no chapter task and no write, loads no RunState, and leaves
\* the state file and the audio files exactly as they were.
C28_DryRunTouchesNothing ==
    /\ [][opts'.dryRun /\ runs' = runs + 1 =>
             /\ rpc' = "exited"
             /\ exitAt' = "dryrun"
             /\ disk' = disk
             /\ audio' = audio
             /\ loaded' = NullState
             /\ state' = NullState
             /\ rq' = EmptyQueue]_vars
    /\ [](opts.dryRun /\ runs > 0 =>
             /\ rpc = "exited"
             /\ exitAt = "dryrun"
             /\ \A i \in ChapterIds :
                   task[i] = "none" /\ synthCalls[i] = 0 /\ attempts[i] = 0 /\ permits[i] = 0
             /\ \A x \in Writers : ~wr[x].busy)
    /\ [][opts.dryRun /\ runs > 0 /\ runs' = runs => disk' = disk /\ audio' = audio]_vars

C28_DryRunWithoutKeyOverSavedState ==
    /\ exitAt = "dryrun"
    /\ ~opts.apiKey
    /\ disk.kind = "state"
    /\ audio # {}

\* C29: with --force the persisted RunState is ignored.  An invocation with
\* --force that gets past the API key check works from no loaded state and
\* begins by saving a fresh RunState with empty completed and failed; when
\* its chapter tasks start, the state file holds that fresh RunState; and
\* none of its chapters is skipped: every chapter task that was started got
\* a synthesis call.
C29_ForceIgnoresOldState ==
    /\ [][opts'.force /\ runs' = runs + 1 /\ EarlyExit(opts') = "none" =>
             /\ StateFor(opts', disk) = NullState
             /\ loaded' = NullState
             /\ rpc' = "initsave"
             /\ state' = FreshState(opts'.input)
             /\ state'.completed = <<>> /\ state'.failed = <<>>
             /\ wr'[InitWriter].busy /\ wr'[InitWriter].snap = state'
             /\ \A i \in ChapterIds : task'[i] = "none"]_vars
    /\ [][opts.force /\ rpc = "initsave" /\ rpc' = "tasks" =>
             /\ disk' = FreshState(opts.input)
             /\ state' = disk'
             /\ \A i \in Chapters(opts) : task'[i] \in {"queued", "synth"}]_vars
    /\ [](opts.force /\ rpc \in {"initsave", "tasks"} =>
             /\ loaded = NullState
             /\ \A i \in ChapterIds :
                   /\ task[i] \notin {"skipping", "skipped"}
                   /\ task[i] \notin {"none", "queued"} => synthCalls[i] >= 1)

C29_ForcedRunRedoesChapter ==
    /\ opts.force
    /\ rpc = "tasks"
    /\ \E i \in ChapterIds : i \in audio /\ task[i] = "synth" /\ synthCalls[i] >= 1

\* C30: a chapter is marked completed only after its synthesis and its audio
\* write are over.  Within a run a chapter enters completed only at the step
\* where its saveMp3File resolves, all its chunks synthesized, its audio file
\* wholly written.  In every state, the kill points included, each chapter
\* in the completed list of the state file has a wholly written audio file
\* and is not being written.  When the process is killed, a chapter that was
\* being synthesized or written, or waited in the queue for that, is not in
\* the completed list left on disk, and a run that resumes from a state without it synthesizes
\* it again.
C30_CompletedOnlyAfterAudioWritten ==
    /\ [][runs' = runs =>
             \A i \in ChapterIds :
                 i \notin CompletedSet(state) /\ i \in CompletedSet(state') =>
                     /\ task[i] = "audio" /\ task'[i] = "savingC"
                     /\ chunk[i] = NChunks(i)
                     /\ synthCalls[i] = NChunks(i)
                     /\ i \in audio']_vars
    /\ [](\A i \in CompletedSet(disk) : i \in audio /\ task[i] # "audio")
    /\ [](\A i \in CompletedSet(state) : i \in audio /\ task[i] # "audio")
    /\ [][rpc = "tasks" /\ rpc' = "killed" =>
             \A i \in ChapterIds :
                 \/ task[i] \in {"synth", "audio"}
                 \/ task[i] = "queued" /\ i \notin CompletedSet(loaded)
                 => i \notin CompletedSet(disk')]_vars
    /\ [](rpc = "tasks" /\ opts.resume =>
             \A i \in ChapterIds :
                 i \notin CompletedSet(loaded) /\ task[i] \notin {"none", "queued"} =>
                     synthCalls[i] >= 1)

C30_ResumedAfterKill ==
    /\ rpc = "tasks"
    /\ opts.resume
    /\ faults >= 1
    /\ \E i \in ChapterIds : task[i] = "skipped"
    /\ \E i \in ChapterIds : i \notin CompletedSet(loaded) /\ task[i] = "audio"

\* the buffers joined one after the other
RECURSIVE Flatten(_)
Flatten(bufs) == IF bufs = <<>> THEN <<>> ELSE Head(bufs) \o Flatten(Tail(bufs))

\* C31: the chunks of a chapter are synthesized one at a time in sequence
\* order, and the chapter's audio is the chunk audios joined in that order.
\* The log of convertToSpeech is start 1, ok 1, start 2, ok 2, ...: a call
\* starts only when every earlier call has returned successfully and none is
\* in flight; buffer k is the audio of chunk k; the returned audio is the
\* concatenation of the buffers in chunk order.
C31_ChunksInSequence ==
    LET log == fRet.log
    IN  fpc \in {"conv", "convCall", "convDone", "convThrown"} =>
            /\ \A n \in 1..Len(log) :
                  /\ log[n].chunk = (n + 1) \div 2
                  /\ log[n].ev = IF n % 2 = 1 THEN "start"
                                 ELSE IF n = Len(log) /\ fpc = "convThrown" THEN "fail"
                                 ELSE "ok"
            /\ fpc = "convCall" <=> Len(log) % 2 = 1
            /\ Len(fRet.audioBuffers) = fRet.i
            /\ fpc # "convThrown" => Len(log) \div 2 = fRet.i
            /\ fpc = "convDone" =>
                  /\ fRet.i = Len(fArg)
                  /\ fRet.audio = Flatten(fRet.audioBuffers)
                  /\ fRet.audio = Combine(fRet.audioBuffers)

C31_ThreeChunksJoined ==
    /\ fpc = "convDone"
    /\ Len(fArg) = 3
    /\ fRet.audioBuffers = << <<2, 3>>, <<>>, <<1>> >>
    /\ fRet.audio = <<2, 3, 1>>

\* C32: a failing chunk fails the chapter.  When a synthesis call of a chapter
\* fails, the chapter makes no further synthesis call and never reaches its
\* audio write: the audio files stay as they are, the chapter gets a failed
\* entry carrying the synthesis error, that state is handed to save, and the
\* chapter is not in completed.  A chapter reaches its audio write only with
\* all its chunks synthesized, and audio files appear only by such a write.
C32_ChunkFailureFailsChapter ==
    /\ [][\A i \in ChapterIds :
             task[i] = "synth" /\ task'[i] # "synth" /\ rpc' = "tasks" /\ runs' = runs =>
                 \/ /\ task'[i] = "audio"
                    /\ chunk[i] = NChunks(i)
                    /\ synthCalls[i] = NChunks(i)
                    /\ i \notin convFailed'
                 \/ /\ task'[i] = "savingF"
                    /\ synthCalls'[i] = synthCalls[i]
                    /\ chunk'[i] = chunk[i]
                    /\ audio' = audio
                    /\ i \in convFailed'
                    /\ Len(state'.failed) = Len(state.failed) + 1
                    /\ state'.failed[Len(state'.failed)].index = i
                    /\ state'.failed[Len(state'.failed)].error \in SynthOutcomes \ {"ok"}
                    /\ state'.completed = state.completed
                    /\ i \notin CompletedSet(state')
                    /\ wr'[i].busy /\ wr'[i].snap = state']_vars
    /\ [][\A i \in ChapterIds :
             i \in audio' /\ i \notin audio => task[i] = "audio" /\ i \notin convFailed]_vars
    /\ [](\A i \in convFailed :
             /\ task[i] \in {"savingF", "done", "rejected"}
             /\ synthCalls[i] = chunk[i]
             /\ i \notin CompletedSet(state)
             /\ i \in FailedIndices(state))

C32_FirstChunkFailedSecondNeverSent ==
    /\ rpc = "tasks"
    /\ task[1] = "savingF"
    /\ 1 \in convFailed
    /\ NChunks(1) = 2
    /\ synthCalls[1] = 1
    /\ 1 \notin audio
    /\ 1 \in FailedIndices(state) /\ 1 \notin CompletedSet(state)

\* C33: a permit is held exactly while the protected call runs.  The number
\* of slots the limiter's queue counts as taken always equals the number of
\* protected calls running, and never exceeds the concurrency; at the step
\* where a call settles, with success or with an error, its slot is given
\* back; a caller in its throttle wait, in the queue, in its retry backoff or
\* finished holds none.
C33_PermitHeldOnlyWhileRunning ==
    /\ [](/\ rlq.pending = Cardinality(Running)
          /\ rlq.pending <= RLConcurrency
          /\ rlq.pending >= 0)
    /\ [][\A c \in Callers :
             cpc[c] = "running" /\ cpc'[c] # "running" =>
                 /\ cpc'[c] \in {"done", "backoff", "failed"}
                 /\ rlq'.pending =
                       rlq.pending - 1
                         + Cardinality({d \in Callers : cpc[d] # "running" /\ cpc'[d] = "running"})]_vars

C33_SlotsFullWhileCallerBacksOff ==
    /\ \E c \in Callers : cpc[c] = "backoff"
    /\ Cardinality(Running) = RLConcurrency
    /\ rlq.pending = RLConcurrency

\* C34: when text remains beyond the default cut, the cut is at the paragraph
\* break of the lookahead window and tolerance band that lies nearest to
\* start + ceiling; without such a break, just after the nearest sentence
\* boundary (period and whitespace); without either, at start + ceiling.
C34_CutAtNearestBoundary ==
    fpc = "split" /\ sStart >= 0 /\ sStart < Len(sText)
                  /\ sStart + sMaxChars < Len(sText) /\ sMaxChars >= 1 =>
        LET cut == CutOf(sText, sMaxChars, sStart)
            searchEnd == Min(sStart + sMaxChars + Lookahead, Len(sText))
            slice == substring(sText, sStart, searchEnd)
            dist(k) == IF k >= sMaxChars THEN k - sMaxChars ELSE sMaxChars - k
            paragraphs == {k \in 1..(Len(slice) - 2) :
                              /\ slice[k + 1] = "\n" /\ slice[k + 2] = "\n"
                              /\ k > sMaxChars - ParagraphTolerance}
            sentences == {k \in 1..(Len(slice) - 1) :
                              /\ slice[k] = "." /\ IsWs(slice[k + 1])
                              /\ k > sMaxChars - SentenceTolerance}
        IN  IF paragraphs # {}
            THEN \E k \in paragraphs :
                    /\ cut = sStart + k
                    /\ \A j \in paragraphs : dist(k) <= dist(j)
            ELSE IF sentences # {}
            THEN \E k \in sentences :
                    /\ cut = sStart + k + 1
                    /\ \A j \in sentences : dist(k + 1) <= dist(j + 1)
            ELSE cut = sStart + sMaxChars

\* C35: a matching persisted RunState stops a plain run.  An invocation with
\* neither --resume nor --force that gets past the API key check and finds
\* a valid state file for the same source and chapter count returns at once:
\* no chapter task, no synthesis call, no write begun, and the state file
\* and the audio files are what they were.
C35_FoundStateStopsPlainRun ==
    /\ [][/\ runs' = runs + 1
           /\ EarlyExit(opts') = "none"
           /\ ~opts'.resume /\ ~opts'.force
           /\ disk.kind = "state"
           /\ disk.source = opts'.input.source
           /\ disk.total = opts'.input.total
           => /\ rpc' = "exited"
              /\ exitAt' = "found"
              /\ disk' = disk
              /\ audio' = audio
              /\ rq' = EmptyQueue
              /\ \A i \in ChapterIds :
                    task'[i] = "none" /\ synthCalls'[i] = 0 /\ attempts'[i] = 0
              /\ \A x \in Writers : ~wr'[x].busy]_vars
    /\ [](exitAt = "found" =>
             /\ rpc = "exited"
             /\ ~opts.resume /\ ~opts.force
             /\ disk.kind = "state"
             /\ \A i \in ChapterIds : task[i] = "none" /\ synthCalls[i] = 0
             /\ \A x \in Writers : ~wr[x].busy)

C35_PlainRunOverUnfinishedState ==
    /\ exitAt = "found"
    /\ disk.kind = "state"
    /\ CompletedSet(disk) # {}
    /\ \E i \in ChapterIds : i \notin CompletedSet(disk)

\* C36: a run that stops at the confirmation prompt touches nothing.  The
\* step in which an invocation without --yes returns at the prompt leaves the
\* state file as it was (absent stays absent, an existing file is not
\* overwritten), and no synthesis call has been made.
C36_ConfirmationStopLeavesStateFile ==
    [][rpc' = "exited" /\ exitAt' = "confirm" =>
          /\ disk' = disk
          /\ rpc # "initsave"
          /\ \A i \in ChapterIds : synthCalls'[i] = 0]_vars

\* C37: the rerun the prompt asks for converts the book.  After an invocation
\* without --resume or --force has stopped at the confirmation prompt, the
\* same invocation with --yes added reaches the chapter tasks, one for every
\* chapter of the book.
C37_RerunWithYesConverts ==
    [][/\ rpc = "exited" /\ exitAt = "confirm"
       /\ ~opts.resume /\ ~opts.force
       /\ runs' = runs + 1
       /\ opts' = [opts EXCEPT !.yes = TRUE]
       => /\ rpc' \in {"initsave", "tasks"}
          /\ rpc' = "tasks" => \A i \in Chapters(opts') : task'[i] # "none"]_vars

\* the chapter ordinals of a failedChapters list, in order
FailedOrdinals(st) == [k \in 1..Len(st.failed) |-> st.failed[k].index]

Distinct(seq) == \A j, k \in 1..Len(seq) : seq[j] = seq[k] => j = k

\* C38: no chapter is listed twice.  In the RunState of the command, in the
\* state it loaded and in the state file, every chapter ordinal occurs at most
\* once in completedChapters and at most once in failedChapters, whatever
\* runs and resumes came before.
C38_OrdinalsListedOnce ==
    \A st \in {state, loaded, disk} :
        st.kind = "state" =>
            Distinct(st.completed) /\ Distinct(FailedOrdinals(st))

\* C39: only a failed conversion puts a chapter on failedChapters.  While the
\* tasks run and at the report, every chapter listed in failedChapters was
\* either listed there in the state the run loaded, or its synthesis or its
\* audio write failed in this run; a RunState save that throws after the
\* audio file was written adds no entry.
C39_FailedOnlyByConversion ==
    (rpc = "tasks" \/ AtReport) =>
        FailedIndices(state) \subseteq FailedIndices(loaded) \cup convFailed

\* the characters of s that are not whitespace, in order
NonWs(s) == SelectSeq(s, LAMBDA c : ~IsWs(c))

\* C40: splitting keeps every non-whitespace character.  For a ceiling of at
\* least 1, after each iteration the non-whitespace characters of the chunks
\* pushed so far, read in order, are those of the text before start, and
\* those of the returned chunks are those of the whole text: none is lost,
\* doubled or moved at a seam.
C40_NonWhitespaceKept ==
    sMaxChars >= 1 =>
        /\ fpc = "split" =>
              NonWs(Concat(sChunks)) = NonWs(substring(sText, 0, sStart))
        /\ fpc = "splitDone" =>
              NonWs(Concat(sChunks)) = NonWs(sText)

\* C40: a text was split inside a word, with whitespace trimmed or a blank
\* chunk dropped elsewhere.
C40_SeamInsideWord ==
    /\ fpc = "splitDone"
    /\ sMaxChars >= 1
    /\ Len(Concat(sChunks)) < Len(sText)
    /\ \E k \in 1..(Len(sChunks) - 1) :
          /\ ~IsWs(sChunks[k][Len(sChunks[k])])
          /\ ~IsWs(sChunks[k + 1][1])

====
